---- MODULE Spec2Model ----
(***************************************************************************)
(* Model of the RCP 2025 package serialization of Cloud-Readers:           *)
(*   cloud_readers/protos/rcp_2025_pb2.py   wire helpers and messages      *)
(*   cloud_readers/serialization/zstd_codec.py   compression frame         *)
(*   cloud_readers/serialization/rcp.py     package writer / reader        *)
(*                                                                         *)
(* Bytes are naturals 0..255, byte strings are sequences of bytes.  Python *)
(* positions are 0-based: data[pos] is data[pos + 1] here.  A Python str   *)
(* is the sequence of its code points (all below 0x800 in this model).     *)
(* A function that can raise returns a record whose err field names the    *)
(* exception ("" when it returns normally).                                *)
(***************************************************************************)
EXTENDS Integers, Sequences, FiniteSets, TLC

\* ------------------------------------------------------------------------
\* Bounds of the model
\* ------------------------------------------------------------------------

\* longest column of a channel handed to the writer
MaxSamples == 2

\* longest byte buffer handed to a ParseFromString
MaxBufLen == 3

\* largest number of entries of a Manifest attribute map
MaxAttrs == 2

\* ------------------------------------------------------------------------
\* Generic helpers
\* ------------------------------------------------------------------------

Min(a, b) == IF a < b THEN a ELSE b

Max(a, b) == IF a < b THEN b ELSE a

\* Python slice data[lo:hi] for 0 <= lo, with hi clamped to len(data)
Slice(data, lo, hi) == SubSeq(data, lo + 1, Min(hi, Len(data)))

RECURSIVE Concat(_)
\* b"".join(parts)
Concat(parts) ==
  IF parts = <<>> THEN <<>> ELSE Head(parts) \o Concat(Tail(parts))

\* all sequences over S of length 0..n
SeqsUpTo(S, n) == UNION { [1..k -> S] : k \in 0..n }

NoErr == ""

ErrTruncatedVarint == "ValueError: Truncated varint"

ErrUnexpectedField == "ValueError: Unexpected field"

ErrMapEntryField == "ValueError: Unexpected map entry field"

ErrStruct == "struct.error: unpack requires a buffer"

ErrUnicode == "UnicodeDecodeError"

ErrLengthMismatch == "ValueError: Mismatched column lengths"

ErrInvalidFrame == "RuntimeError: Invalid zstd frame"

ErrZstd == "RuntimeError: zstd error"

ErrNotFound == "FileNotFoundError"

\* ------------------------------------------------------------------------
\* Wire helpers (rcp_2025_pb2.py, lines 18-75)
\* ------------------------------------------------------------------------

\* a varint encoder that writes the lowest 7-bit group only
encode_varint_one_group(value) == <<value % 128>>

RECURSIVE encode_varint(_)
\* value & 0x7F is value % 128 and value >>= 7 is value \div 128
encode_varint(value) ==
  IF value \div 128 # 0
    THEN <<(value % 128) + 128>> \o encode_varint(value \div 128)
    ELSE <<value % 128>>

encode_tag(field_number, wire_type) ==
  encode_varint(field_number * 8 + wire_type)

RECURSIVE decode_varint_loop(_, _, _, _)
\* the while-loop of _decode_varint with its locals pos, shift and result;
\* (byte & 0x7F) << shift adds into bits that are still zero in result
decode_varint_loop(data, pos, shift, result) ==
  IF pos >= Len(data)
    THEN [err |-> ErrTruncatedVarint, value |-> 0, pos |-> pos]
    ELSE LET byte == data[pos + 1]
             low == byte % 128
             acc == result + (IF low = 0 THEN 0 ELSE low * (2 ^ shift))
         IN IF byte \div 128 = 0
              THEN [err |-> NoErr, value |-> acc, pos |-> pos + 1]
              ELSE decode_varint_loop(data, pos + 1, shift + 7, acc)

\* _decode_varint reading from the start of the buffer whatever pos is
decode_varint_from_start(data, pos) == decode_varint_loop(data, 0, 0, 0)

decode_varint(data, pos) == decode_varint_loop(data, pos, 0, 0)

encode_length_delimited(payload) == encode_varint(Len(payload)) \o payload

\* data[pos:end] is cut short silently when end lies beyond the buffer, and
\* end is returned as the new position all the same
decode_length_delimited(data, pos) ==
  LET v == decode_varint(data, pos)
      end == v.pos + v.value
  IN IF v.err # NoErr
       THEN [err |-> v.err, raw |-> <<>>, pos |-> v.pos]
       ELSE [err |-> NoErr, raw |-> Slice(data, v.pos, end), pos |-> end]

\* ------------------------------------------------------------------------
\* Floats.  A Python float is an IEEE-754 double.  It is modelled by its
\* bit pattern, little-endian: [w |-> 32, b |-> 4 bytes] when the double is
\* exactly a float32 value, [w |-> 64, b |-> 8 bytes] when it is not.
\* ------------------------------------------------------------------------

\* 0.0, 1.0 and 0.5: float32 values
F_0 == [w |-> 32, b |-> <<0, 0, 0, 0>>]

F_1 == [w |-> 32, b |-> <<0, 0, 128, 63>>]

F_half == [w |-> 32, b |-> <<0, 0, 0, 63>>]

\* 0.55: not a float32 value (the test data's pressure column holds it)
F_055 == [w |-> 64, b |-> <<154, 153, 153, 153, 153, 153, 225, 63>>]

\* float32(0.55) = 0.550000011920929
F_055_f32 == [w |-> 32, b |-> <<205, 204, 12, 63>>]

\* round-to-nearest narrowing of the doubles of the model that are not
\* float32 values
NarrowToF32(b) ==
  CASE b = F_055.b -> F_055_f32.b

\* struct.pack("<f", value)
encode_float(value) ==
  IF value.w = 32 THEN value.b ELSE NarrowToF32(value.b)

\* struct.unpack("<f", data[pos:end])[0] with end = pos + 4
decode_float(data, pos) ==
  LET end == pos + 4
      cut == Slice(data, pos, end)
  IN IF Len(cut) # 4
       THEN [err |-> ErrStruct, value |-> F_0, pos |-> end]
       ELSE [err |-> NoErr, value |-> [w |-> 32, b |-> cut], pos |-> end]

\* The dpi and duration_seconds fields are float64: the 8 bytes of the double
D_0 == <<0, 0, 0, 0, 0, 0, 0, 0>>

D_300 == <<0, 0, 0, 0, 0, 192, 114, 64>>

D_negzero == <<0, 0, 0, 0, 0, 0, 0, 128>>

\* truth value of a Python float: false for 0.0 and -0.0
DoubleTruthy(d) == d # D_0 /\ d # D_negzero

\* Python == on floats: 0.0 == -0.0 (no NaN in the model)
DoubleEq(a, b) == a = b \/ (~DoubleTruthy(a) /\ ~DoubleTruthy(b))

\* struct.pack("<d", value)
encode_double(value) == value

\* struct.unpack("<d", data[pos:end])[0] with end = pos + 8
decode_double(data, pos) ==
  LET end == pos + 8
      cut == Slice(data, pos, end)
  IN IF Len(cut) # 8
       THEN [err |-> ErrStruct, value |-> D_0, pos |-> end]
       ELSE [err |-> NoErr, value |-> cut, pos |-> end]

\* ------------------------------------------------------------------------
\* str.encode() and bytes.decode(): UTF-8, for code points below 0x800
\* ------------------------------------------------------------------------

RECURSIVE str_encode(_)
str_encode(s) ==
  IF s = <<>> THEN <<>>
  ELSE LET c == Head(s)
       IN (IF c < 128 THEN <<c>> ELSE <<192 + (c \div 64), 128 + (c % 64)>>)
          \o str_encode(Tail(s))

RECURSIVE bytes_decode(_)
bytes_decode(raw) ==
  IF raw = <<>> THEN [err |-> NoErr, s |-> <<>>]
  ELSE LET b1 == raw[1]
       IN IF b1 < 128
            THEN LET rest == bytes_decode(Tail(raw))
                 IN [err |-> rest.err, s |-> <<b1>> \o rest.s]
          ELSE IF b1 >= 194 /\ b1 < 224 /\ Len(raw) >= 2
                  /\ raw[2] >= 128 /\ raw[2] < 192
            THEN LET rest == bytes_decode(SubSeq(raw, 3, Len(raw)))
                 IN [err |-> rest.err,
                     s |-> <<(b1 - 192) * 64 + (raw[2] - 128)>> \o rest.s]
          ELSE [err |-> ErrUnicode, s |-> <<>>]

\* ------------------------------------------------------------------------
\* Checksum (rcp_2025_pb2.py, lines 81-111)
\* ------------------------------------------------------------------------

Checksum(path, sha256) == [path |-> path, sha256 |-> sha256]

Checksum_SerializeToString(self) ==
  (IF self.path # <<>>
     THEN encode_tag(1, 2) \o encode_length_delimited(str_encode(self.path))
     ELSE <<>>)
  \o
  (IF self.sha256 # <<>>
     THEN encode_tag(2, 2) \o encode_length_delimited(str_encode(self.sha256))
     ELSE <<>>)

RECURSIVE Checksum_parse_loop_skipping(_, _, _)
\* Checksum_parse_loop with the forward-compatible rule of mainstream
\* protobuf: an unknown varint field is skipped
Checksum_parse_loop_skipping(data, pos, self) ==
  IF pos >= Len(data) THEN [err |-> NoErr, msg |-> self]
  ELSE
    LET tag == decode_varint(data, pos)
        field_no == tag.value \div 8
        wire_type == tag.value % 8
    IN IF tag.err # NoErr THEN [err |-> tag.err, msg |-> self]
       ELSE IF field_no \in {1, 2} /\ wire_type = 2
         THEN LET ld == decode_length_delimited(data, tag.pos)
                  str == bytes_decode(ld.raw)
              IN IF ld.err # NoErr THEN [err |-> ld.err, msg |-> self]
                 ELSE IF str.err # NoErr THEN [err |-> str.err, msg |-> self]
                 ELSE Checksum_parse_loop_skipping(data, ld.pos,
                        IF field_no = 1 THEN [self EXCEPT !.path = str.s]
                                        ELSE [self EXCEPT !.sha256 = str.s])
       ELSE IF wire_type = 0
         THEN LET v == decode_varint(data, tag.pos)
              IN IF v.err # NoErr THEN [err |-> v.err, msg |-> self]
                 ELSE Checksum_parse_loop_skipping(data, v.pos, self)
       ELSE [err |-> ErrUnexpectedField, msg |-> self]

RECURSIVE Checksum_parse_loop(_, _, _)
Checksum_parse_loop(data, pos, self) ==
  IF pos >= Len(data) THEN [err |-> NoErr, msg |-> self]
  ELSE
    LET tag == decode_varint(data, pos)
        field_no == tag.value \div 8
        wire_type == tag.value % 8
    IN IF tag.err # NoErr THEN [err |-> tag.err, msg |-> self]
       ELSE IF field_no \in {1, 2} /\ wire_type = 2
         THEN LET ld == decode_length_delimited(data, tag.pos)
                  str == bytes_decode(ld.raw)
              IN IF ld.err # NoErr THEN [err |-> ld.err, msg |-> self]
                 ELSE IF str.err # NoErr THEN [err |-> str.err, msg |-> self]
                 ELSE Checksum_parse_loop(data, ld.pos,
                        IF field_no = 1 THEN [self EXCEPT !.path = str.s]
                                        ELSE [self EXCEPT !.sha256 = str.s])
       ELSE [err |-> ErrUnexpectedField, msg |-> self]

\* lines 96-97 reset both fields before the loop
Checksum_ParseFromString(self, data) ==
  Checksum_parse_loop(data, 0, [self EXCEPT !.path = <<>>, !.sha256 = <<>>])

\* ------------------------------------------------------------------------
\* Manifest (rcp_2025_pb2.py, lines 114-201).  The attributes dict is the
\* sequence of its <<key, value>> items in insertion order, keys distinct.
\* ------------------------------------------------------------------------

EmptyManifest ==
  [version |-> <<>>, package_id |-> <<>>, source |-> <<>>,
   device_profile |-> <<>>, dpi |-> D_0, created_at |-> <<>>,
   attributes |-> <<>>]

DictKeys(d) == { d[i][1] : i \in 1..Len(d) }

\* d[key] = value: an existing key keeps its place, a new one goes last
DictSet(d, key, value) ==
  IF key \in DictKeys(d)
    THEN [i \in 1..Len(d) |-> IF d[i][1] = key THEN <<key, value>> ELSE d[i]]
    ELSE Append(d, <<key, value>>)

\* dict == dict: the same items, in any order
DictEq(d, e) == { d[i] : i \in 1..Len(d) } = { e[i] : i \in 1..Len(e) }

\* dataclass __eq__ of Manifest
ManifestEq(m, n) ==
  /\ m.version = n.version
  /\ m.package_id = n.package_id
  /\ m.source = n.source
  /\ m.device_profile = n.device_profile
  /\ DoubleEq(m.dpi, n.dpi)
  /\ m.created_at = n.created_at
  /\ DictEq(m.attributes, n.attributes)

StringField(field_number, value) ==
  IF value # <<>>
    THEN encode_tag(field_number, 2) \o encode_length_delimited(str_encode(value))
    ELSE <<>>

RECURSIVE Manifest_serialize_attributes(_)
\* the loop over self.attributes.items()
Manifest_serialize_attributes(items) ==
  IF items = <<>> THEN <<>>
  ELSE LET key == Head(items)[1]
           value == Head(items)[2]
           entry == encode_tag(1, 2) \o encode_length_delimited(str_encode(key))
                    \o encode_tag(2, 2) \o encode_length_delimited(str_encode(value))
       IN encode_tag(7, 2) \o encode_length_delimited(entry)
          \o Manifest_serialize_attributes(Tail(items))

Manifest_SerializeToString(self) ==
  StringField(1, self.version)
  \o StringField(2, self.package_id)
  \o StringField(3, self.source)
  \o StringField(4, self.device_profile)
  \o (IF DoubleTruthy(self.dpi)
        THEN encode_tag(5, 1) \o encode_double(self.dpi) ELSE <<>>)
  \o StringField(6, self.created_at)
  \o Manifest_serialize_attributes(self.attributes)

RECURSIVE parse_attribute_entry_loop(_, _, _, _)
\* the while-loop of _parse_attribute_entry with its locals key and value
parse_attribute_entry_loop(entry, pos, key, value) ==
  IF pos >= Len(entry) THEN [err |-> NoErr, key |-> key, value |-> value]
  ELSE
    LET tag == decode_varint(entry, pos)
        field_no == tag.value \div 8
        wire_type == tag.value % 8
    IN IF tag.err # NoErr THEN [err |-> tag.err, key |-> key, value |-> value]
       ELSE IF field_no \in {1, 2} /\ wire_type = 2
         THEN LET ld == decode_length_delimited(entry, tag.pos)
                  str == bytes_decode(ld.raw)
              IN IF ld.err # NoErr
                   THEN [err |-> ld.err, key |-> key, value |-> value]
                 ELSE IF str.err # NoErr
                   THEN [err |-> str.err, key |-> key, value |-> value]
                 ELSE IF field_no = 1
                   THEN parse_attribute_entry_loop(entry, ld.pos, str.s, value)
                   ELSE parse_attribute_entry_loop(entry, ld.pos, key, str.s)
       ELSE [err |-> ErrMapEntryField, key |-> key, value |-> value]

\* Manifest._parse_attribute_entry: the entry is stored only "if key:"
parse_attribute_entry(self, entry) ==
  LET r == parse_attribute_entry_loop(entry, 0, <<>>, <<>>)
  IN IF r.err # NoErr THEN [err |-> r.err, msg |-> self]
     ELSE IF r.key # <<>>
       THEN [err |-> NoErr,
             msg |-> [self EXCEPT !.attributes = DictSet(@, r.key, r.value)]]
       ELSE [err |-> NoErr, msg |-> self]

RECURSIVE Manifest_parse_loop(_, _, _)
Manifest_parse_loop(data, pos, self) ==
  IF pos >= Len(data) THEN [err |-> NoErr, msg |-> self]
  ELSE
    LET tag == decode_varint(data, pos)
        field_no == tag.value \div 8
        wire_type == tag.value % 8
    IN IF tag.err # NoErr THEN [err |-> tag.err, msg |-> self]
       ELSE IF field_no \in {1, 2, 3, 4, 6} /\ wire_type = 2
         THEN LET ld == decode_length_delimited(data, tag.pos)
                  str == bytes_decode(ld.raw)
              IN IF ld.err # NoErr THEN [err |-> ld.err, msg |-> self]
                 ELSE IF str.err # NoErr THEN [err |-> str.err, msg |-> self]
                 ELSE Manifest_parse_loop(data, ld.pos,
                        CASE field_no = 1 -> [self EXCEPT !.version = str.s]
                          [] field_no = 2 -> [self EXCEPT !.package_id = str.s]
                          [] field_no = 3 -> [self EXCEPT !.source = str.s]
                          [] field_no = 4 -> [self EXCEPT !.device_profile = str.s]
                          [] field_no = 6 -> [self EXCEPT !.created_at = str.s])
       ELSE IF field_no = 5 /\ wire_type = 1
         THEN LET d == decode_double(data, tag.pos)
              IN IF d.err # NoErr THEN [err |-> d.err, msg |-> self]
                 ELSE Manifest_parse_loop(data, d.pos, [self EXCEPT !.dpi = d.value])
       ELSE IF field_no = 7 /\ wire_type = 2
         THEN LET ld == decode_length_delimited(data, tag.pos)
                  a == parse_attribute_entry(self, ld.raw)
              IN IF ld.err # NoErr THEN [err |-> ld.err, msg |-> self]
                 ELSE IF a.err # NoErr THEN [err |-> a.err, msg |-> self]
                 ELSE Manifest_parse_loop(data, ld.pos, a.msg)
       ELSE [err |-> ErrUnexpectedField, msg |-> self]

\* lines 147-149 reset every field before the loop
Manifest_ParseFromString(self, data) ==
  Manifest_parse_loop(data, 0,
    [self EXCEPT !.version = <<>>, !.package_id = <<>>, !.source = <<>>,
                 !.device_profile = <<>>, !.created_at = <<>>,
                 !.dpi = D_0, !.attributes = <<>>])

Manifest_to_dict(self) == [kind |-> "Manifest", fields |-> self]

\* ------------------------------------------------------------------------
\* Index (rcp_2025_pb2.py, lines 204-257)
\* ------------------------------------------------------------------------

Index(touch_samples, acc_samples, gyro_samples, duration_seconds) ==
  [touch_samples |-> touch_samples, acc_samples |-> acc_samples,
   gyro_samples |-> gyro_samples, duration_seconds |-> duration_seconds,
   checksums |-> <<>>]

RECURSIVE Index_serialize_checksums(_)
Index_serialize_checksums(checksums) ==
  IF checksums = <<>> THEN <<>>
  ELSE encode_tag(5, 2)
       \o encode_length_delimited(Checksum_SerializeToString(Head(checksums)))
       \o Index_serialize_checksums(Tail(checksums))

Index_SerializeToString(self) ==
  encode_tag(1, 0) \o encode_varint(self.touch_samples)
  \o encode_tag(2, 0) \o encode_varint(self.acc_samples)
  \o encode_tag(3, 0) \o encode_varint(self.gyro_samples)
  \o encode_tag(4, 1) \o encode_double(self.duration_seconds)
  \o Index_serialize_checksums(self.checksums)

RECURSIVE Index_parse_loop(_, _, _)
Index_parse_loop(data, pos, self) ==
  IF pos >= Len(data) THEN [err |-> NoErr, msg |-> self]
  ELSE
    LET tag == decode_varint(data, pos)
        field_no == tag.value \div 8
        wire_type == tag.value % 8
    IN IF tag.err # NoErr THEN [err |-> tag.err, msg |-> self]
       ELSE IF field_no \in {1, 2, 3} /\ wire_type = 0
         THEN LET v == decode_varint(data, tag.pos)
              IN IF v.err # NoErr THEN [err |-> v.err, msg |-> self]
                 ELSE Index_parse_loop(data, v.pos,
                        CASE field_no = 1 -> [self EXCEPT !.touch_samples = v.value]
                          [] field_no = 2 -> [self EXCEPT !.acc_samples = v.value]
                          [] OTHER -> [self EXCEPT !.gyro_samples = v.value])
       ELSE IF field_no = 4 /\ wire_type = 1
         THEN LET d == decode_double(data, tag.pos)
              IN IF d.err # NoErr THEN [err |-> d.err, msg |-> self]
                 ELSE Index_parse_loop(data, d.pos,
                        [self EXCEPT !.duration_seconds = d.value])
       ELSE IF field_no = 5 /\ wire_type = 2
         THEN LET ld == decode_length_delimited(data, tag.pos)
                  c == Checksum_ParseFromString(Checksum(<<>>, <<>>), ld.raw)
              IN IF ld.err # NoErr THEN [err |-> ld.err, msg |-> self]
                 ELSE IF c.err # NoErr THEN [err |-> c.err, msg |-> self]
                 ELSE Index_parse_loop(data, ld.pos,
                        [self EXCEPT !.checksums = Append(@, c.msg)])
       ELSE [err |-> ErrUnexpectedField, msg |-> self]

\* Index.ParseFromString without lines 225-227: the loop runs on the
\* object as it is
Index_ParseFromString_keeping(self, data) == Index_parse_loop(data, 0, self)

\* lines 225-227 reset every field before the loop
Index_ParseFromString(self, data) ==
  Index_parse_loop(data, 0,
    [self EXCEPT !.touch_samples = 0, !.acc_samples = 0, !.gyro_samples = 0,
                 !.duration_seconds = D_0, !.checksums = <<>>])

Index_to_dict(self) == [kind |-> "Index", fields |-> self]

\* ------------------------------------------------------------------------
\* TouchChannel, AccChannel, GyroChannel (rcp_2025_pb2.py, lines 260-388).
\* A channel object carries its class in cls.
\* ------------------------------------------------------------------------

TouchChannel(t, x, y, pressure, size) ==
  [cls |-> "TouchChannel", t |-> t, x |-> x, y |-> y,
   pressure |-> pressure, size |-> size]

AccChannel(t, x, y, z) ==
  [cls |-> "AccChannel", t |-> t, x |-> x, y |-> y, z |-> z]

GyroChannel(t, x, y, z) ==
  [cls |-> "GyroChannel", t |-> t, x |-> x, y |-> y, z |-> z]

ChannelClasses == {"TouchChannel", "AccChannel", "GyroChannel"}

\* channel_cls(): every column an empty list
NewChannel(cls) ==
  CASE cls = "TouchChannel" -> TouchChannel(<<>>, <<>>, <<>>, <<>>, <<>>)
    [] cls = "AccChannel" -> AccChannel(<<>>, <<>>, <<>>, <<>>)
    [] cls = "GyroChannel" -> GyroChannel(<<>>, <<>>, <<>>, <<>>)

\* the columns of a channel, in field order
Columns(ch) ==
  IF ch.cls = "TouchChannel"
    THEN <<ch.t, ch.x, ch.y, ch.pressure, ch.size>>
    ELSE <<ch.t, ch.x, ch.y, ch.z>>

RECURSIVE VarintColumn(_, _)
\* _encode_tag(n, 0) + _encode_varint(value) for value in column
VarintColumn(field_number, column) ==
  IF column = <<>> THEN <<>>
  ELSE encode_tag(field_number, 0) \o encode_varint(Head(column))
       \o VarintColumn(field_number, Tail(column))

RECURSIVE FloatColumn(_, _)
\* _encode_tag(n, 5) + _encode_float(value) for value in column
FloatColumn(field_number, column) ==
  IF column = <<>> THEN <<>>
  ELSE encode_tag(field_number, 5) \o encode_float(Head(column))
       \o FloatColumn(field_number, Tail(column))

\* TouchChannel_SerializeToString with the field numbers of x and y exchanged
TouchChannel_SerializeToString_swapped(self) ==
  VarintColumn(1, self.t) \o FloatColumn(3, self.x) \o FloatColumn(2, self.y)
  \o FloatColumn(4, self.pressure) \o FloatColumn(5, self.size)

TouchChannel_SerializeToString(self) ==
  VarintColumn(1, self.t) \o FloatColumn(2, self.x) \o FloatColumn(3, self.y)
  \o FloatColumn(4, self.pressure) \o FloatColumn(5, self.size)

AccChannel_SerializeToString(self) ==
  VarintColumn(1, self.t) \o FloatColumn(2, self.x) \o FloatColumn(3, self.y)
  \o FloatColumn(4, self.z)

GyroChannel_SerializeToString(self) ==
  VarintColumn(1, self.t) \o FloatColumn(2, self.x) \o FloatColumn(3, self.y)
  \o FloatColumn(4, self.z)

\* channel.SerializeToString(), dispatched on the object's class
SerializeToString(channel) ==
  CASE channel.cls = "TouchChannel" -> TouchChannel_SerializeToString(channel)
    [] channel.cls = "AccChannel" -> AccChannel_SerializeToString(channel)
    [] channel.cls = "GyroChannel" -> GyroChannel_SerializeToString(channel)

RECURSIVE TouchChannel_parse_loop(_, _, _)
TouchChannel_parse_loop(data, pos, self) ==
  IF pos >= Len(data) THEN [err |-> NoErr, msg |-> self]
  ELSE
    LET tag == decode_varint(data, pos)
        field_no == tag.value \div 8
        wire_type == tag.value % 8
    IN IF tag.err # NoErr THEN [err |-> tag.err, msg |-> self]
       ELSE IF field_no = 1 /\ wire_type = 0
         THEN LET v == decode_varint(data, tag.pos)
              IN IF v.err # NoErr THEN [err |-> v.err, msg |-> self]
                 ELSE TouchChannel_parse_loop(data, v.pos,
                        [self EXCEPT !.t = Append(@, v.value)])
       ELSE IF field_no \in {2, 3, 4, 5} /\ wire_type = 5
         THEN LET f == decode_float(data, tag.pos)
              IN IF f.err # NoErr THEN [err |-> f.err, msg |-> self]
                 ELSE TouchChannel_parse_loop(data, f.pos,
                        CASE field_no = 2 -> [self EXCEPT !.x = Append(@, f.value)]
                          [] field_no = 3 -> [self EXCEPT !.y = Append(@, f.value)]
                          [] field_no = 4 -> [self EXCEPT !.pressure = Append(@, f.value)]
                          [] field_no = 5 -> [self EXCEPT !.size = Append(@, f.value)])
       ELSE [err |-> ErrUnexpectedField, msg |-> self]

\* line 278 clears every column before the loop
TouchChannel_ParseFromString(self, data) ==
  TouchChannel_parse_loop(data, 0,
    [self EXCEPT !.t = <<>>, !.x = <<>>, !.y = <<>>,
                 !.pressure = <<>>, !.size = <<>>])

RECURSIVE AccChannel_parse_loop(_, _, _)
AccChannel_parse_loop(data, pos, self) ==
  IF pos >= Len(data) THEN [err |-> NoErr, msg |-> self]
  ELSE
    LET tag == decode_varint(data, pos)
        field_no == tag.value \div 8
        wire_type == tag.value % 8
    IN IF tag.err # NoErr THEN [err |-> tag.err, msg |-> self]
       ELSE IF field_no = 1 /\ wire_type = 0
         THEN LET v == decode_varint(data, tag.pos)
              IN IF v.err # NoErr THEN [err |-> v.err, msg |-> self]
                 ELSE AccChannel_parse_loop(data, v.pos,
                        [self EXCEPT !.t = Append(@, v.value)])
       ELSE IF field_no \in {2, 3, 4} /\ wire_type = 5
         THEN LET f == decode_float(data, tag.pos)
              IN IF f.err # NoErr THEN [err |-> f.err, msg |-> self]
                 ELSE AccChannel_parse_loop(data, f.pos,
                        CASE field_no = 2 -> [self EXCEPT !.x = Append(@, f.value)]
                          [] field_no = 3 -> [self EXCEPT !.y = Append(@, f.value)]
                          [] field_no = 4 -> [self EXCEPT !.z = Append(@, f.value)])
       ELSE [err |-> ErrUnexpectedField, msg |-> self]

\* line 327 clears every column before the loop
AccChannel_ParseFromString(self, data) ==
  AccChannel_parse_loop(data, 0,
    [self EXCEPT !.t = <<>>, !.x = <<>>, !.y = <<>>, !.z = <<>>])

\* GyroChannel.ParseFromString is AccChannel's, line for line
GyroChannel_ParseFromString(self, data) ==
  AccChannel_parse_loop(data, 0,
    [self EXCEPT !.t = <<>>, !.x = <<>>, !.y = <<>>, !.z = <<>>])

\* message_obj.ParseFromString(raw), dispatched on the object's class
ParseFromString(message_obj, raw) ==
  CASE message_obj.cls = "TouchChannel" -> TouchChannel_ParseFromString(message_obj, raw)
    [] message_obj.cls = "AccChannel" -> AccChannel_ParseFromString(message_obj, raw)
    [] message_obj.cls = "GyroChannel" -> GyroChannel_ParseFromString(message_obj, raw)

\* ------------------------------------------------------------------------
\* zstd_codec.py.  libzstd itself is outside the repository: a frame is
\* modelled as the 4 magic bytes, one header cell holding the content size
\* (SizeUnknown when the header omits it) and the content as one raw block.
\* ------------------------------------------------------------------------

ZstdMagic == <<40, 181, 47, 253>>

\* ctypes.c_ulonglong(~0).value and ctypes.c_ulonglong(~1).value: the 64-bit
\* patterns of -1 and -2
ZSTD_CONTENTSIZE_ERROR == 0 - 1

ZSTD_CONTENTSIZE_UNKNOWN == 0 - 2

FrameHasHeader(src) == Len(src) >= 5 /\ SubSeq(src, 1, 4) = ZstdMagic

\* the header cell holds ZSTD_CONTENTSIZE_UNKNOWN when the frame does not
\* embed its content size
ZSTD_getFrameContentSize(src) ==
  IF ~FrameHasHeader(src) THEN ZSTD_CONTENTSIZE_ERROR ELSE src[5]

\* ZSTD_decompress into a buffer of dstCapacity bytes: an error for a corrupt
\* frame and for a buffer smaller than the content
ZSTD_decompress(dstCapacity, src) ==
  LET content == SubSeq(src, 6, Len(src))
  IN IF ~FrameHasHeader(src) THEN [isError |-> TRUE, data |-> <<>>]
     ELSE IF src[5] # ZSTD_CONTENTSIZE_UNKNOWN /\ src[5] # Len(content)
       THEN [isError |-> TRUE, data |-> <<>>]
     ELSE IF Len(content) > dstCapacity THEN [isError |-> TRUE, data |-> <<>>]
     ELSE [isError |-> FALSE, data |-> content]

\* a compressor that loses the last byte of its input
compress_truncating(data, level) ==
  ZstdMagic \o <<Len(data)>> \o Slice(data, 0, Len(data) - 1)

\* ZSTD_compress always embeds the content size; the level changes the
\* encoding of the blocks, not the content they decode to
compress(data, level) == ZstdMagic \o <<Len(data)>> \o data

ErrDiverges == "does not terminate"

RECURSIVE decompress_loop(_, _)
\* the while-loop of decompress (lines 87-97).  content_size * 2 > (1 << 30)
\* is written content_size > 2^29; a failing attempt with content_size = 0
\* doubles to 0 and repeats for ever
decompress_loop(src, content_size) ==
  LET decoded == ZSTD_decompress(content_size, src)
  IN IF ~decoded.isError THEN [err |-> NoErr, data |-> decoded.data]
     ELSE IF content_size = 0 THEN [err |-> ErrDiverges, data |-> <<>>]
     ELSE IF content_size > 2 ^ 29 THEN [err |-> ErrZstd, data |-> <<>>]
     ELSE decompress_loop(src, content_size * 2)

decompress(data) ==
  LET content_size == ZSTD_getFrameContentSize(data)
  IN IF content_size = ZSTD_CONTENTSIZE_ERROR
       THEN [err |-> ErrInvalidFrame, data |-> <<>>]
     ELSE IF content_size = ZSTD_CONTENTSIZE_UNKNOWN
       THEN decompress_loop(data, Max(Len(data) * 4, 1024))
     ELSE decompress_loop(data, content_size)

\* ------------------------------------------------------------------------
\* The filesystem.  A path is the sequence of its components; fs maps every
\* path of the model to what it holds.
\* ------------------------------------------------------------------------

Absent == [kind |-> "absent"]

Dir == [kind |-> "dir"]

File(content) == [kind |-> "file", content |-> content]

Root == <<"root">>

\* pathlib: path / name and path.parent
Join(path, name) == Append(path, name)

Parent(path) == SubSeq(path, 1, Len(path) - 1)

Exists(fs, path) == fs[path].kind # "absent"

\* path.mkdir(parents=True, exist_ok=True): the path and every ancestor
mkdir_parents(fs, path) ==
  [q \in DOMAIN fs |->
     IF Len(q) <= Len(path) /\ q = SubSeq(path, 1, Len(q)) /\ ~Exists(fs, q)
       THEN Dir ELSE fs[q]]

\* a write that leaves a file that already exists as it is
write_file_keeping(fs, path, content) ==
  IF fs[Parent(path)].kind # "dir"
    THEN [err |-> ErrNotFound, fs |-> fs]
    ELSE IF fs[path].kind = "file" THEN [err |-> NoErr, fs |-> fs]
    ELSE [err |-> NoErr, fs |-> [fs EXCEPT ![path] = File(content)]]

\* path.write_bytes(data) and path.write_text(data): open, write, close
write_file(fs, path, content) ==
  IF fs[Parent(path)].kind # "dir"
    THEN [err |-> ErrNotFound, fs |-> fs]
    ELSE [err |-> NoErr, fs |-> [fs EXCEPT ![path] = File(content)]]

\* path.read_bytes() and path.read_text()
read_file(fs, path) ==
  IF fs[path].kind # "file"
    THEN [err |-> ErrNotFound, content |-> <<>>]
    ELSE [err |-> NoErr, content |-> fs[path].content]

\* hashlib.sha256(data).hexdigest(), taken to be free of collisions
Sha256(content) == [sha256 |-> content]

\* ------------------------------------------------------------------------
\* rcp.py
\* ------------------------------------------------------------------------

ensure_lengths_match(values) ==
  LET lengths == { Len(values[i]) : i \in 1..Len(values) }
  IN IF Cardinality(lengths) > 1 THEN ErrLengthMismatch ELSE NoErr

\* json.dumps(content, indent=2, sort_keys=True): the text is the dict with
\* the keys of every nested dict in sorted order, so the order in which an
\* attributes dict was filled is not in it
SortKeys(content) ==
  IF content.kind = "Manifest"
    THEN [content EXCEPT
            !.fields.attributes = { @[i] : i \in 1..Len(@) }]
    ELSE content

json_dumps(content) == [fmt |-> "json", obj |-> SortKeys(content)]

\* json.loads(text)
json_loads(text) == text.obj.fields

\* payload.to_dict(), dispatched on the object's class
to_dict(payload) ==
  IF "version" \in DOMAIN payload
    THEN Manifest_to_dict(payload) ELSE Index_to_dict(payload)

message_to_json(payload) == json_dumps(to_dict(payload))

\* write_channel_pbz without the elif branch: only a TouchChannel is checked
write_channel_pbz_touch_only(fs, channel, path, compression_level) ==
  LET check == IF channel.cls = "TouchChannel"
                 THEN ensure_lengths_match(Columns(channel)) ELSE NoErr
      raw == SerializeToString(channel)
      compressed == compress(raw, compression_level)
  IN IF check # NoErr THEN [err |-> check, fs |-> fs]
     ELSE write_file(mkdir_parents(fs, Parent(path)), path, compressed)

write_channel_pbz(fs, channel, path, compression_level) ==
  LET check == ensure_lengths_match(Columns(channel))
      raw == SerializeToString(channel)
      compressed == compress(raw, compression_level)
  IN IF check # NoErr THEN [err |-> check, fs |-> fs]
     ELSE write_file(mkdir_parents(fs, Parent(path)), path, compressed)

\* lines 73-75: the inflated bytes are parsed into a new channel_cls()
parse_channel(raw, channel_cls) ==
  IF raw.err # NoErr
    THEN [err |-> raw.err, msg |-> NewChannel(channel_cls)]
    ELSE ParseFromString(NewChannel(channel_cls), raw.data)

\* lines 71-72: the file's bytes are read and inflated
inflate_file(compressed) ==
  IF compressed.err # NoErr
    THEN [err |-> compressed.err, data |-> <<>>]
    ELSE decompress(compressed.content)

\* ParseFromString returns None: message_obj is returned as the parse left it
returned(parsed) == [err |-> parsed.err, value |-> parsed.msg]

read_channel_pbz(fs, path, channel_cls) ==
  returned(parse_channel(inflate_file(read_file(fs, path)), channel_cls))

write_manifest(fs, manifest, path) ==
  write_file(fs, path, message_to_json(manifest))

write_index(fs, index, path) ==
  write_file(fs, path, message_to_json(index))

RECURSIVE compute_checksums(_, _)
\* paths is a sequence of <<relative, full>>; the result is the list of
\* Checksum objects, or the error of the first file that cannot be read
compute_checksums(fs, paths) ==
  IF paths = <<>> THEN [err |-> NoErr, checksums |-> <<>>]
  ELSE LET relative == Head(paths)[1]
           full == Head(paths)[2]
           data == read_file(fs, full)
           rest == compute_checksums(fs, Tail(paths))
       IN IF data.err # NoErr THEN [err |-> data.err, checksums |-> <<>>]
          ELSE IF rest.err # NoErr THEN rest
          ELSE [err |-> NoErr,
                checksums |-> <<Checksum(relative, Sha256(data.content))>>
                              \o rest.checksums]

\* A text is the sequence of its pieces: a digest's 64 hex characters, a
\* path string, a space or a newline.
Hex(digest) == [c |-> "hex", v |-> digest]

Str(string) == [c |-> "str", v |-> string]

Space == [c |-> " ", v |-> 0]

Newline == [c |-> "\n", v |-> 0]

RECURSIVE join_lines(_)
\* "\n".join(lines)
join_lines(lines) ==
  IF lines = <<>> THEN <<>>
  ELSE IF Len(lines) = 1 THEN Head(lines)
  ELSE Head(lines) \o <<Newline>> \o join_lines(Tail(lines))

\* checksum_line with a single space between digest and path
checksum_line_one_space(entry) == <<Hex(entry.sha256), Space, Str(entry.path)>>

\* f"{entry.sha256}  {entry.path}"
checksum_line(entry) == <<Hex(entry.sha256), Space, Space, Str(entry.path)>>

write_checksum_file(fs, entries, path) ==
  LET lines == [i \in 1..Len(entries) |-> checksum_line(entries[i])]
  IN write_file(fs, path, join_lines(lines) \o <<Newline>>)

\* a duration in seconds is kept as the integer it is divided from:
\* Micros(n) is the float n / 1_000_000.0
Micros(n) == [micros |-> n]

\* channel_duration without the single-sample branch
channel_duration_span_only(maybe_times) ==
  IF maybe_times = <<>> THEN Micros(0)
  ELSE Micros(maybe_times[Len(maybe_times)] - maybe_times[1])

channel_duration(maybe_times) ==
  IF maybe_times = <<>> THEN Micros(0)
  ELSE IF Len(maybe_times) = 1 THEN Micros(maybe_times[1])
  ELSE Micros(maybe_times[Len(maybe_times)] - maybe_times[1])

\* max(durations): the division by 1_000_000.0 keeps the order
MaxDuration(durations) ==
  Micros(CHOOSE n \in { durations[i].micros : i \in 1..Len(durations) } :
           \A i \in 1..Len(durations) : durations[i].micros <= n)

ChannelArtifacts(channels_dir) ==
  [touch_path |-> Join(channels_dir, "touch.pbz"),
   acc_path |-> Join(channels_dir, "acc.pbz"),
   gyro_path |-> Join(channels_dir, "gyro.pbz")]

package_paths(root) ==
  [root |-> root,
   channels |-> ChannelArtifacts(Join(root, "channels")),
   manifest_path |-> Join(root, "manifest.json"),
   index_path |-> Join(root, "index.json"),
   checksums_path |-> Join(root, "checksums.txt")]

\* index_of with acc_samples counted on the touch channel
index_of_copied_count(touch, acc, gyro) ==
  IF touch.err # NoErr THEN [err |-> touch.err, index |-> Index(0, 0, 0, Micros(0))]
  ELSE IF acc.err # NoErr THEN [err |-> acc.err, index |-> Index(0, 0, 0, Micros(0))]
  ELSE IF gyro.err # NoErr THEN [err |-> gyro.err, index |-> Index(0, 0, 0, Micros(0))]
  ELSE [err |-> NoErr,
        index |-> Index(Len(touch.value.t), Len(touch.value.t), Len(gyro.value.t),
                        MaxDuration(<<channel_duration(touch.value.t),
                                      channel_duration(acc.value.t),
                                      channel_duration(gyro.value.t)>>))]

\* lines 107-123 of build_index, from the three channels read back
index_of(touch, acc, gyro) ==
  IF touch.err # NoErr THEN [err |-> touch.err, index |-> Index(0, 0, 0, Micros(0))]
  ELSE IF acc.err # NoErr THEN [err |-> acc.err, index |-> Index(0, 0, 0, Micros(0))]
  ELSE IF gyro.err # NoErr THEN [err |-> gyro.err, index |-> Index(0, 0, 0, Micros(0))]
  ELSE [err |-> NoErr,
        index |-> Index(Len(touch.value.t), Len(acc.value.t), Len(gyro.value.t),
                        MaxDuration(<<channel_duration(touch.value.t),
                                      channel_duration(acc.value.t),
                                      channel_duration(gyro.value.t)>>))]

build_index(fs, manifest, channels) ==
  index_of(read_channel_pbz(fs, channels.touch_path, "TouchChannel"),
           read_channel_pbz(fs, channels.acc_path, "AccChannel"),
           read_channel_pbz(fs, channels.gyro_path, "GyroChannel"))

\* lines 160-165
checksum_inputs(paths) ==
  << <<"manifest.json", paths.manifest_path>>,
     <<"channels/touch.pbz", paths.channels.touch_path>>,
     <<"channels/acc.pbz", paths.channels.acc_path>>,
     <<"channels/gyro.pbz", paths.channels.gyro_path>> >>

\* The frame of one write_package call: its arguments, its locals, the
\* filesystem it acts on and the exception that ended it (NoErr while it runs)
Frame(fs, root, manifest, touch, acc, gyro, compression_level) ==
  [fs |-> fs, err |-> NoErr, paths |-> package_paths(root),
   manifest |-> manifest, touch |-> touch, acc |-> acc, gyro |-> gyro,
   compression_level |-> compression_level,
   index |-> Index(0, 0, 0, Micros(0)),
   checksum_inputs |-> <<>>, checksum_entries |-> <<>>]

\* write_package_steps with index.json written once more after the final
\* checksums were taken of its first version
write_package_steps_rewrite_index ==
  <<"mkdir", "write_touch", "write_acc", "write_gyro", "write_manifest",
    "build_index", "write_index", "index_checksums", "checksum_entries",
    "write_index", "write_checksum_file">>

\* write_package_steps with index.json written before the checksums are
\* added to the index
write_package_steps_index_first ==
  <<"mkdir", "write_touch", "write_acc", "write_gyro", "write_manifest",
    "build_index", "write_index", "index_checksums", "checksum_entries",
    "write_checksum_file">>

\* write_package_steps with index.json brought up to date after
\* checksums.txt is written
write_package_steps_checksums_early ==
  <<"mkdir", "write_touch", "write_acc", "write_gyro", "write_manifest",
    "build_index", "write_index", "index_checksums", "checksum_entries",
    "write_checksum_file", "write_index">>

\* the statements of write_package, in program order (lines 150-173)
write_package_steps ==
  <<"mkdir", "write_touch", "write_acc", "write_gyro", "write_manifest",
    "build_index", "index_checksums", "write_index", "checksum_entries",
    "write_checksum_file">>

\* the frame after a statement that wrote to the filesystem
wrote(f, r) == [f EXCEPT !.fs = r.fs, !.err = r.err]

\* the frame after index = build_index(...)
built(f, r) == [f EXCEPT !.index = r.index, !.err = r.err]

\* line 166 without the extend: the digests are computed and dropped
extended_dropping(f, inputs, r) ==
  [f EXCEPT !.checksum_inputs = inputs, !.err = r.err]

\* the frame after index.checksums.extend(compute_checksums(...))
extended(f, inputs, r) ==
  [f EXCEPT !.checksum_inputs = inputs,
            !.index.checksums = @ \o r.checksums, !.err = r.err]

\* the frame after checksum_entries = compute_checksums(...)
computed(f, inputs, r) ==
  [f EXCEPT !.checksum_inputs = inputs,
            !.checksum_entries = r.checksums, !.err = r.err]

\* one statement of write_package
step(name, f) ==
  CASE name = "mkdir" ->
         [f EXCEPT !.fs = mkdir_parents(f.fs, f.paths.root)]
    [] name = "write_touch" ->
         wrote(f, write_channel_pbz(f.fs, f.touch, f.paths.channels.touch_path,
                                    f.compression_level))
    [] name = "write_acc" ->
         wrote(f, write_channel_pbz(f.fs, f.acc, f.paths.channels.acc_path,
                                    f.compression_level))
    [] name = "write_gyro" ->
         wrote(f, write_channel_pbz(f.fs, f.gyro, f.paths.channels.gyro_path,
                                    f.compression_level))
    [] name = "write_manifest" ->
         wrote(f, write_manifest(f.fs, f.manifest, f.paths.manifest_path))
    [] name = "build_index" ->
         built(f, build_index(f.fs, f.manifest, f.paths.channels))
    [] name = "index_checksums" ->
         extended(f, checksum_inputs(f.paths),
                  compute_checksums(f.fs, checksum_inputs(f.paths)))
    [] name = "write_index" ->
         wrote(f, write_index(f.fs, f.index, f.paths.index_path))
    [] name = "checksum_entries" ->
         computed(f, Append(f.checksum_inputs, <<"index.json", f.paths.index_path>>),
                  compute_checksums(f.fs,
                    Append(f.checksum_inputs, <<"index.json", f.paths.index_path>>)))
    [] name = "write_checksum_file" ->
         wrote(f, write_checksum_file(f.fs, f.checksum_entries,
                                      f.paths.checksums_path))

RECURSIVE run(_, _)
\* the statements run in order until one raises
run(steps, f) ==
  IF steps = <<>> \/ f.err # NoErr THEN f
  ELSE run(Tail(steps), step(Head(steps), f))

\* the whole call: err is the exception that ended it (NoErr when it
\* returned), fs the filesystem it left, index the Index it returned
outcome(end) == [err |-> end.err, fs |-> end.fs, index |-> end.index]

write_package(fs, root, manifest, touch, acc, gyro, compression_level) ==
  outcome(run(write_package_steps,
              Frame(fs, root, manifest, touch, acc, gyro, compression_level)))

\* ------------------------------------------------------------------------
\* Inputs
\* ------------------------------------------------------------------------

\* compression_level: int = 3
DefaultLevel == 3

\* _normalize_timestamps(sample_count, spacing_us=50_000) of serialization.py
Spacing == 50000

normalize_timestamps(sample_count) ==
  [i \in 1..sample_count |-> (i - 1) * Spacing]

FloatValues == {F_1, F_055}

TimestampValues == {0, 300}

\* the column of n copies of v
Fill(n, v) == [i \in 1..n |-> v]

\* a column cut or padded (with its default value) to length m
Resize(column, m, v) ==
  [i \in 1..m |-> IF i <= Len(column) THEN column[i] ELSE v]

\* a channel of the class with columns t and, in every float column, f
\* turned into that column's values
MakeChannel(cls, t, f) ==
  IF cls = "TouchChannel"
    THEN TouchChannel(t, f, Fill(Len(f), F_half), f, Fill(Len(f), F_0))
  ELSE IF cls = "AccChannel"
    THEN AccChannel(t, f, Fill(Len(f), F_0), Fill(Len(f), F_1))
    ELSE GyroChannel(t, Fill(Len(f), F_0), f, Fill(Len(f), F_half))

ColumnNames(cls) ==
  IF cls = "TouchChannel" THEN {"t", "x", "y", "pressure", "size"}
                          ELSE {"t", "x", "y", "z"}

\* the channel with one column resized to m
Defect(ch, column, m) ==
  [ch EXCEPT ![column] = Resize(@, m, IF column = "t" THEN 0 ELSE F_0)]

\* the channels handed to write_channel_pbz: equal-length columns of any
\* values, and each of them with one column of another length
ChannelInputs(cls) ==
  LET good == { MakeChannel(cls, t, f) :
                  <<t, f>> \in { p \in SeqsUpTo(TimestampValues, MaxSamples)
                                       \X SeqsUpTo(FloatValues, MaxSamples) :
                                 Len(p[1]) = Len(p[2]) } }
  IN good \cup { Defect(ch, c, m) :
                   <<ch, c, m>> \in good \X ColumnNames(cls) \X (0..MaxSamples) }

\* the channels the export pipeline hands to write_package: n samples at
\* the default spacing
PipelineChannels(cls) ==
  { MakeChannel(cls, normalize_timestamps(n), Fill(n, F_055)) :
      n \in 0..MaxSamples }

\* channels of another caller: one late sample, and two samples whose
\* timestamps go backwards
CallerChannels(cls) ==
  { MakeChannel(cls, <<300>>, <<F_1>>),
    MakeChannel(cls, <<300, 0>>, <<F_1, F_055>>) }

\* the channels handed to write_package: those above, and each pipeline
\* channel with one column of another length
PackageChannels(cls) ==
  PipelineChannels(cls) \cup CallerChannels(cls)
  \cup { Defect(ch, c, m) :
           <<ch, c, m>> \in PipelineChannels(cls) \X ColumnNames(cls)
                            \X (0..MaxSamples) }

WellFormed(ch) == ensure_lengths_match(Columns(ch)) = NoErr

\* write_package is called with at most one channel that is not a pipeline
\* channel
PackageInputs ==
  { p \in PackageChannels("TouchChannel") \X PackageChannels("AccChannel")
          \X PackageChannels("GyroChannel") :
      Cardinality({ i \in 1..3 : p[i] \notin PipelineChannels(p[i].cls) }) <= 1 }

\* "v", "p", "style", "calm" ... as short strings of code points
S_a == <<97>>

S_b == <<98>>

S_e_acute == <<233>>

ExampleManifest ==
  [version |-> <<114, 99, 112>>, package_id |-> S_a, source |-> S_b,
   device_profile |-> S_a, dpi |-> D_300, created_at |-> <<90>>,
   attributes |-> << <<S_a, S_b>>, <<S_b, S_e_acute>> >>]

PackageManifests == {ExampleManifest, EmptyManifest}

Paths ==
  LET p == package_paths(Root)
  IN {Root, Join(Root, "channels"), p.channels.touch_path,
      p.channels.acc_path, p.channels.gyro_path, p.manifest_path,
      p.index_path, p.checksums_path}

ChannelPaths ==
  LET p == package_paths(Root)
  IN {p.channels.touch_path, p.channels.acc_path, p.channels.gyro_path}

EmptyFs == [q \in Paths |-> Absent]

\* a root that holds a complete package of other data
OldFs ==
  write_package(EmptyFs, Root, [EmptyManifest EXCEPT !.version = S_b],
                TouchChannel(<<7>>, <<F_0>>, <<F_0>>, <<F_0>>, <<F_0>>),
                AccChannel(<<7, 9>>, <<F_0, F_0>>, <<F_0, F_0>>, <<F_0, F_0>>),
                GyroChannel(<<>>, <<>>, <<>>, <<>>), DefaultLevel).fs

InitialRoots == {EmptyFs, mkdir_parents(EmptyFs, Root), OldFs}

\* ------------------------------------------------------------------------
\* State
\* ------------------------------------------------------------------------

VARIABLES
  fs,      \* the filesystem under the package root
  pc,      \* "idle", "written" after the writing call, then "read"
  wcall,   \* the writing call: its arguments, fs before it, its outcome
  rcall,   \* the last read_channel_pbz call: its arguments and outcome
  codec,   \* the last message-codec call: its arguments and outcome
  writers  \* the write_package calls that run statement by statement

vars == <<fs, pc, wcall, rcall, codec, writers>>

NoCall == [op |-> "none"]

\* the two callers of write_package
Writers == {1, 2}

NoWriters == [w \in Writers |-> [status |-> "idle"]]

Init ==
  /\ fs \in InitialRoots
  /\ pc = "idle"
  /\ wcall = NoCall
  /\ rcall = NoCall
  /\ codec = NoCall
  /\ writers = NoWriters

\* rcp.write_package(root, manifest, touch, acc, gyro)
WritePackage ==
  /\ pc = "idle"
  /\ \E manifest \in PackageManifests, p \in PackageInputs :
       LET r == write_package(fs, Root, manifest, p[1], p[2], p[3], DefaultLevel)
       IN /\ fs' = r.fs
          /\ wcall' = [op |-> "write_package", pre |-> fs,
                       manifest |-> manifest, touch |-> p[1], acc |-> p[2],
                       gyro |-> p[3], err |-> r.err, index |-> r.index]
  /\ pc' = "written"
  /\ UNCHANGED <<rcall, codec, writers>>

\* rcp.write_channel_pbz(channel, path)
WriteChannelPbz ==
  /\ pc = "idle"
  /\ \E cls \in ChannelClasses, path \in ChannelPaths :
       \E channel \in ChannelInputs(cls) :
         LET r == write_channel_pbz(fs, channel, path, DefaultLevel)
         IN /\ fs' = r.fs
            /\ wcall' = [op |-> "write_channel_pbz", pre |-> fs,
                         channel |-> channel, path |-> path, err |-> r.err]
  /\ pc' = "written"
  /\ UNCHANGED <<rcall, codec, writers>>

\* rcp.read_channel_pbz(path, channel_cls)
ReadChannelPbz ==
  /\ pc = "written"
  /\ pc' = "read"
  /\ \E path \in ChannelPaths, channel_cls \in ChannelClasses :
       LET r == read_channel_pbz(fs, path, channel_cls)
       IN rcall' = [op |-> "read_channel_pbz", path |-> path,
                    channel_cls |-> channel_cls, err |-> r.err,
                    value |-> r.value]
  /\ UNCHANGED <<fs, wcall, codec, writers>>

Next == WritePackage \/ WriteChannelPbz \/ ReadChannelPbz

Spec == Init /\ [][Next]_vars

\* ------------------------------------------------------------------------
\* The message codec on its own: one ParseFromString or one
\* SerializeToString / ParseFromString round trip per behaviour
\* ------------------------------------------------------------------------

\* tags (1,0) (1,2) (2,0) (2,2) (2,5) (8,0), small values and a
\* continuation byte
ByteAlphabet == {0, 1, 8, 10, 16, 18, 21, 64, 128}

Tails == SeqsUpTo(ByteAlphabet, MaxBufLen)

ExampleChecksum == Checksum(S_a, S_b)

ExampleIndex ==
  [Index(2, 1, 0, D_300) EXCEPT !.checksums = <<ExampleChecksum>>]

ExampleChannel(cls) == MakeChannel(cls, <<0, 300>>, <<F_1, F_055>>)

StringInputs == {<<>>, S_a, S_e_acute}

\* attribute dicts of at most MaxAttrs items over StringInputs
AttributeInputs ==
  { d \in SeqsUpTo(StringInputs \X StringInputs, MaxAttrs) :
      \A i, j \in 1..Len(d) : i # j => d[i][1] # d[j][1] }

ManifestInputs ==
  { [version |-> v, package_id |-> p, source |-> <<>>,
     device_profile |-> S_a, dpi |-> d, created_at |-> c, attributes |-> a] :
      <<v, p, d, c, a>> \in StringInputs \X {<<>>, S_b}
                            \X {D_0, D_300, D_negzero} \X {<<>>, S_e_acute}
                            \X AttributeInputs }

InitCodec ==
  /\ fs = EmptyFs
  /\ pc = "idle"
  /\ wcall = NoCall
  /\ rcall = NoCall
  /\ codec = NoCall
  /\ writers = NoWriters

\* the outcome of msg.ParseFromString(prefix + tail): schema names the
\* message whose fields tail is read as
Parsed(schema, prefix, tail, r) ==
  [op |-> "ParseFromString", schema |-> schema, prefix |-> prefix,
   tail |-> tail, err |-> r.err, msg |-> r.msg]

ChecksumParse ==
  /\ codec = NoCall
  /\ \E prefix \in {<<>>, Checksum_SerializeToString(ExampleChecksum)},
        tail \in Tails :
       codec' = Parsed("Checksum", prefix, tail,
                       Checksum_ParseFromString(ExampleChecksum, prefix \o tail))
  /\ UNCHANGED <<fs, pc, wcall, rcall, writers>>

ManifestParse ==
  /\ codec = NoCall
  /\ \E prefix \in {<<>>, Manifest_SerializeToString(ExampleManifest)},
        tail \in Tails :
       codec' = Parsed("Manifest", prefix, tail,
                       Manifest_ParseFromString(ExampleManifest, prefix \o tail))
  /\ UNCHANGED <<fs, pc, wcall, rcall, writers>>

\* tail is the payload of one attributes entry (field 7)
ManifestEntryParse ==
  /\ codec = NoCall
  /\ \E prefix \in {<<>>, Manifest_SerializeToString(ExampleManifest)},
        tail \in Tails :
       codec' = Parsed("Manifest.attributes", prefix, tail,
                       Manifest_ParseFromString(ExampleManifest,
                         prefix \o encode_tag(7, 2)
                         \o encode_length_delimited(tail)))
  /\ UNCHANGED <<fs, pc, wcall, rcall, writers>>

IndexParse ==
  /\ codec = NoCall
  /\ \E prefix \in {<<>>, Index_SerializeToString(ExampleIndex)},
        tail \in Tails :
       codec' = Parsed("Index", prefix, tail,
                       Index_ParseFromString(ExampleIndex, prefix \o tail))
  /\ UNCHANGED <<fs, pc, wcall, rcall, writers>>

\* tail is the payload of one checksums entry (field 5)
IndexChecksumParse ==
  /\ codec = NoCall
  /\ \E prefix \in {<<>>, Index_SerializeToString(ExampleIndex)},
        tail \in Tails :
       codec' = Parsed("Index.checksums", prefix, tail,
                       Index_ParseFromString(ExampleIndex,
                         prefix \o encode_tag(5, 2)
                         \o encode_length_delimited(tail)))
  /\ UNCHANGED <<fs, pc, wcall, rcall, writers>>

ChannelParse ==
  /\ codec = NoCall
  /\ \E cls \in ChannelClasses :
       \E prefix \in {<<>>, SerializeToString(ExampleChannel(cls))},
          tail \in Tails :
         codec' = Parsed(cls, prefix, tail,
                         ParseFromString(ExampleChannel(cls), prefix \o tail))
  /\ UNCHANGED <<fs, pc, wcall, rcall, writers>>

\* parsed = Manifest(); parsed.ParseFromString(m.SerializeToString())
ManifestRoundTrip ==
  /\ codec = NoCall
  /\ \E m \in ManifestInputs :
       LET data == Manifest_SerializeToString(m)
           r == Manifest_ParseFromString(EmptyManifest, data)
       IN codec' = [op |-> "Manifest round trip", m |-> m, data |-> data,
                    err |-> r.err, msg |-> r.msg]
  /\ UNCHANGED <<fs, pc, wcall, rcall, writers>>

NextCodec ==
  \/ ChecksumParse
  \/ ManifestParse
  \/ ManifestEntryParse
  \/ IndexParse
  \/ IndexChecksumParse
  \/ ChannelParse
  \/ ManifestRoundTrip

SpecCodec == InitCodec /\ [][NextCodec]_vars

\* ------------------------------------------------------------------------
\* Reading a package back, as tests/verify_rcp_integrity.py does
\* ------------------------------------------------------------------------

IsSpace(piece) == piece.c = " " \/ piece.c = "\n"

RECURSIVE strip(_)
\* str.strip()
strip(text) ==
  IF text = <<>> THEN <<>>
  ELSE IF IsSpace(Head(text)) THEN strip(Tail(text))
  ELSE IF IsSpace(text[Len(text)]) THEN strip(SubSeq(text, 1, Len(text) - 1))
  ELSE text

RECURSIVE splitlines(_)
\* str.splitlines()
splitlines(text) ==
  IF text = <<>> THEN <<>>
  ELSE LET ends == { i \in 1..Len(text) : text[i].c = "\n" }
           k == IF ends = {} THEN Len(text) + 1
                ELSE CHOOSE i \in ends : \A j \in ends : i <= j
       IN <<SubSeq(text, 1, k - 1)>> \o splitlines(SubSeq(text, k + 1, Len(text)))

\* line.split("  ", 1)
split_two_spaces(line) ==
  LET at == { i \in 1..(Len(line) - 1) : line[i].c = " " /\ line[i + 1].c = " " }
  IN IF at = {} THEN <<line>>
     ELSE LET k == CHOOSE i \in at : \A j \in at : i <= j
          IN <<SubSeq(line, 1, k - 1), SubSeq(line, k + 2, Len(line))>>

\* paths.checksums_path.read_text().strip().splitlines()
checksum_lines(files) ==
  splitlines(strip(read_file(files, package_paths(Root).checksums_path).content))

\* the dict of lines 53-59: the five artifacts by their relative names
ArtifactPath(file_name) ==
  CASE file_name = "manifest.json" -> package_paths(Root).manifest_path
    [] file_name = "index.json" -> package_paths(Root).index_path
    [] file_name = "channels/touch.pbz" -> package_paths(Root).channels.touch_path
    [] file_name = "channels/acc.pbz" -> package_paths(Root).channels.acc_path
    [] file_name = "channels/gyro.pbz" -> package_paths(Root).channels.gyro_path

\* _hash_file(path)
hash_file(files, path) == Sha256(read_file(files, path).content)

\* json.loads(paths.index_path.read_text())
index_json(files) ==
  json_loads(read_file(files, package_paths(Root).index_path).content)

\* ------------------------------------------------------------------------
\* Claims about the package writer (specification Spec)
\* ------------------------------------------------------------------------

WritePackageReturned == wcall.op = "write_package" /\ wcall.err = NoErr

FiveArtifacts ==
  <<"manifest.json", "channels/touch.pbz", "channels/acc.pbz",
    "channels/gyro.pbz", "index.json">>

UnequalColumns(ch) ==
  \E i, j \in 1..Len(Columns(ch)) : Len(Columns(ch)[i]) # Len(Columns(ch)[j])

\* the line is one digest, two spaces and the name of an artifact whose
\* bytes on disk hash to that digest
LineMatchesDisk(line, files) ==
  LET parts == split_two_spaces(line)
  IN /\ Len(parts) = 2
     /\ Len(parts[1]) = 1 /\ parts[1][1].c = "hex"
     /\ Len(parts[2]) = 1 /\ parts[2][1].c = "str"
     /\ \E k \in 1..5 : parts[2][1].v = FiveArtifacts[k]
     /\ Exists(files, ArtifactPath(parts[2][1].v))
     /\ parts[1][1].v = hash_file(files, ArtifactPath(parts[2][1].v))

LineNames(lines) == { split_two_spaces(lines[i])[2][1].v : i \in 1..Len(lines) }

\* C1: after write_package returns, checksums.txt holds exactly 5 lines, one
\* for each of manifest.json, the three channel files and index.json, and the
\* digest of every line is the SHA-256 of the bytes that file holds on disk
C1_ChecksumCompleteness ==
  WritePackageReturned =>
    /\ Len(checksum_lines(fs)) = 5
    /\ \A i \in 1..5 : LineMatchesDisk(checksum_lines(fs)[i], fs)
    /\ LineNames(checksum_lines(fs)) = { FiveArtifacts[k] : k \in 1..5 }

\* write_package returned on a root that already held another package
C1_Witness ==
  /\ WritePackageReturned
  /\ Exists(wcall.pre, package_paths(Root).checksums_path)
  /\ wcall.pre[package_paths(Root).index_path] # fs[package_paths(Root).index_path]
  /\ Len(wcall.touch.t) = MaxSamples

\* C4 as stated: when one of the three channels has columns of unequal
\* length, write_package raises the length-mismatch error and has created or
\* changed nothing under root
C4_ValidatesBeforeAnyIO ==
  (/\ wcall.op = "write_package"
   /\ (UnequalColumns(wcall.touch) \/ UnequalColumns(wcall.acc)
       \/ UnequalColumns(wcall.gyro)))
  => (wcall.err = ErrLengthMismatch /\ fs = wcall.pre)

\* C5: write_channel_pbz of a channel whose columns differ in length raises
\* the length-mismatch ValueError and leaves the filesystem as it was: the
\* target file and its parent directory are neither created nor written
C5_MismatchWritesNothing ==
  (wcall.op = "write_channel_pbz" /\ UnequalColumns(wcall.channel))
  => (/\ wcall.err = ErrLengthMismatch
      /\ fs = wcall.pre
      /\ fs[wcall.path] = wcall.pre[wcall.path]
      /\ fs[Parent(wcall.path)] = wcall.pre[Parent(wcall.path)])

\* a mismatched Acc or Gyro channel was rejected on a root without channels/
C5_Witness ==
  /\ wcall.op = "write_channel_pbz"
  /\ wcall.channel.cls # "TouchChannel"
  /\ UnequalColumns(wcall.channel)
  /\ wcall.err = ErrLengthMismatch
  /\ ~Exists(fs, Parent(wcall.path))

\* the pieces of line k (1..5) of a text of five-piece lines
LinePieces(text, k) == SubSeq(text, 5 * k - 4, 5 * k)

\* C8: the lines of checksums.txt are, in this order, those of manifest.json,
\* channels/touch.pbz, channels/acc.pbz, channels/gyro.pbz and index.json;
\* each is the hex digest, two spaces and the relative path, and the file
\* ends with a newline
C8_ChecksumFileLayout ==
  WritePackageReturned =>
    LET text == fs[package_paths(Root).checksums_path].content
    IN /\ Len(text) = 25
       /\ \A k \in 1..5 :
            /\ LinePieces(text, k)[1].c = "hex"
            /\ LinePieces(text, k)[2] = Space
            /\ LinePieces(text, k)[3] = Space
            /\ LinePieces(text, k)[4] = Str(FiveArtifacts[k])
            /\ LinePieces(text, k)[5] = Newline

\* write_package returned and checksums.txt was written by this call
C8_Witness ==
  /\ WritePackageReturned
  /\ ~Exists(wcall.pre, package_paths(Root).checksums_path)
  /\ Exists(fs, package_paths(Root).checksums_path)

ChecksumNames(checksums) == [i \in 1..Len(checksums) |-> checksums[i].path]

\* C9: the Index returned by write_package and the one in index.json carry
\* exactly the 4 entries manifest.json, channels/touch.pbz, channels/acc.pbz,
\* channels/gyro.pbz in that order; index.json is named in checksums.txt only
C9_IndexHasFourChecksums ==
  WritePackageReturned =>
    /\ ChecksumNames(wcall.index.checksums) = SubSeq(FiveArtifacts, 1, 4)
    /\ ChecksumNames(index_json(fs).checksums) = SubSeq(FiveArtifacts, 1, 4)
    /\ "index.json" \in LineNames(checksum_lines(fs))

\* write_package returned on a root where an older index.json existed
C9_Witness ==
  /\ WritePackageReturned
  /\ Exists(wcall.pre, package_paths(Root).index_path)
  /\ Len(wcall.index.checksums) = 4

\* the number of timestamps decoded from the channel file on disk
SamplesOnDisk(files, path, cls) == Len(read_channel_pbz(files, path, cls).value.t)

\* C10: touch_samples, acc_samples and gyro_samples of index.json and of the
\* returned Index equal the number of timestamps decoded from the channel
\* files on disk, and the lengths of the t columns the caller passed
C10_SampleCountsFromDisk ==
  WritePackageReturned =>
    LET on_disk == <<SamplesOnDisk(fs, package_paths(Root).channels.touch_path, "TouchChannel"),
                     SamplesOnDisk(fs, package_paths(Root).channels.acc_path, "AccChannel"),
                     SamplesOnDisk(fs, package_paths(Root).channels.gyro_path, "GyroChannel")>>
        passed == <<Len(wcall.touch.t), Len(wcall.acc.t), Len(wcall.gyro.t)>>
        counts(index) == <<index.touch_samples, index.acc_samples, index.gyro_samples>>
    IN /\ counts(index_json(fs)) = on_disk
       /\ counts(wcall.index) = on_disk
       /\ on_disk = passed

\* write_package returned for three channels of three different lengths
C10_Witness ==
  /\ WritePackageReturned
  /\ Len(wcall.touch.t) = 2 /\ Len(wcall.acc.t) = 1 /\ Len(wcall.gyro.t) = 0
  /\ index_json(fs).touch_samples = 2

\* the float32 value nearest to a Python float, as a Python float
float32(v) == IF v.w = 32 THEN v ELSE [w |-> 32, b |-> NarrowToF32(v.b)]

\* a channel was written and then read from the same path as the same class
RoundTripCase ==
  /\ pc = "read"
  /\ wcall.op = "write_channel_pbz" /\ wcall.err = NoErr
  /\ rcall.path = wcall.path
  /\ rcall.channel_cls = wcall.channel.cls

\* C2 as stated: write_channel_pbz then read_channel_pbz of the same path and
\* class returns a channel whose columns equal the original ones element for
\* element
C2_ExactRoundTrip ==
  RoundTripCase => (rcall.err = NoErr /\ rcall.value = wcall.channel)

\* C2, amended: the channel read back has the t column of the original,
\* element for element, and every float column holds, in order, the original
\* values rounded to float32 (so every column keeps its number of samples)
C2_RoundTripUpToFloat32 ==
  RoundTripCase =>
    /\ rcall.err = NoErr
    /\ rcall.value.cls = wcall.channel.cls
    /\ rcall.value.t = wcall.channel.t
    /\ \A k \in 2..Len(Columns(wcall.channel)) :
         /\ Len(Columns(rcall.value)[k]) = Len(Columns(wcall.channel)[k])
         /\ \A i \in 1..Len(Columns(wcall.channel)[k]) :
              Columns(rcall.value)[k][i] = float32(Columns(wcall.channel)[k][i])

\* a full-length channel holding 0.55 and a two-byte timestamp was written
\* and read back
C2_Witness ==
  /\ RoundTripCase
  /\ Len(wcall.channel.t) = MaxSamples
  /\ \E i \in 1..MaxSamples : wcall.channel.t[i] = 300
  /\ \E k \in 2..Len(Columns(wcall.channel)) :
       \E i \in 1..MaxSamples : Columns(wcall.channel)[k][i] = F_055

\* ------------------------------------------------------------------------
\* Claims about the message codec (specification SpecCodec)
\* ------------------------------------------------------------------------

\* the <<field number, wire type>> pairs of each message
Schema(name) ==
  CASE name \in {"Checksum", "Index.checksums", "Manifest.attributes"} ->
         {<<1, 2>>, <<2, 2>>}
    [] name = "Manifest" ->
         {<<1, 2>>, <<2, 2>>, <<3, 2>>, <<4, 2>>, <<5, 1>>, <<6, 2>>, <<7, 2>>}
    [] name = "Index" -> {<<1, 0>>, <<2, 0>>, <<3, 0>>, <<4, 1>>, <<5, 2>>}
    [] name = "TouchChannel" -> {<<1, 0>>, <<2, 5>>, <<3, 5>>, <<4, 5>>, <<5, 5>>}
    [] name \in {"AccChannel", "GyroChannel"} ->
         {<<1, 0>>, <<2, 5>>, <<3, 5>>, <<4, 5>>}

\* the buffer starts with a complete tag that the schema does not have
FirstTagOutside(tail, name) ==
  /\ decode_varint(tail, 0).err = NoErr
  /\ <<decode_varint(tail, 0).value \div 8, decode_varint(tail, 0).value % 8>>
       \notin Schema(name)

\* C7: every ParseFromString raises when it meets a tag whose field number is
\* not in the schema, or is in it with another wire type: the field is not
\* skipped and the parse does not return normally
C7_StrictSchema ==
  (codec.op = "ParseFromString" /\ FirstTagOutside(codec.tail, codec.schema))
  => codec.err = (IF codec.schema = "Manifest.attributes"
                    THEN ErrMapEntryField ELSE ErrUnexpectedField)

\* a known field number with the wrong wire type was met after valid fields
C7_Witness ==
  /\ codec.op = "ParseFromString"
  /\ codec.prefix # <<>>
  /\ codec.schema = "Checksum"
  /\ decode_varint(codec.tail, 0).err = NoErr
  /\ decode_varint(codec.tail, 0).value = 8
  /\ codec.err = ErrUnexpectedField

\* C3 as stated: parsing the serialization of any Manifest gives back a
\* Manifest equal to it field for field, with the same attribute entries
C3_ManifestRoundTrip ==
  codec.op = "Manifest round trip" =>
    (codec.err = NoErr /\ ManifestEq(codec.msg, codec.m))

\* C6 as stated: a channel decode that returns has columns of equal length
C6_DecodeRejectsUnequalColumns ==
  (/\ codec.op = "ParseFromString"
   /\ codec.schema \in ChannelClasses
   /\ codec.err = NoErr)
  => ~UnequalColumns(codec.msg)

\* the span of a channel in microseconds, in the words of the claim
SpanMicros(t) ==
  IF Len(t) >= 2 THEN t[Len(t)] - t[1]
  ELSE IF Len(t) = 1 THEN t[1] ELSE 0

\* the three spans of the channels passed to write_package
PassedSpans ==
  {SpanMicros(wcall.touch.t), SpanMicros(wcall.acc.t), SpanMicros(wcall.gyro.t)}

\* C11: duration_seconds of the index (returned and in index.json) is the
\* maximum over the three channels of the span / 1_000_000: last - first for
\* two or more samples, 0 for none, the sample's own timestamp for one
C11_DurationIsMaxSpan ==
  WritePackageReturned =>
    /\ index_json(fs).duration_seconds.micros \in PassedSpans
    /\ \A span \in PassedSpans : span <= index_json(fs).duration_seconds.micros
    /\ wcall.index.duration_seconds = index_json(fs).duration_seconds

\* a package whose longest span is that of a single sample at 300 us
C11_Witness ==
  /\ WritePackageReturned
  /\ \E ch \in {wcall.touch, wcall.acc, wcall.gyro} : ch.t = <<300>>
  /\ index_json(fs).duration_seconds = Micros(300)

\* ------------------------------------------------------------------------
\* write_package statement by statement (specification SpecSteps): up to
\* two calls on the same root; a call can raise, or its process can die,
\* between any two statements
\* ------------------------------------------------------------------------

\* a package of the pipeline with touch, acc and gyro of n, m and k samples
StepPackage(n, m, k) ==
  <<MakeChannel("TouchChannel", normalize_timestamps(n), Fill(n, F_055)),
    MakeChannel("AccChannel", normalize_timestamps(m), Fill(m, F_055)),
    MakeChannel("GyroChannel", normalize_timestamps(k), Fill(k, F_055))>>

\* two packages of different channel data, and one whose gyro channel has a
\* short column
StepInputs ==
  {StepPackage(MaxSamples, 1, 0), StepPackage(1, 0, MaxSamples),
   [StepPackage(1, 1, 1) EXCEPT ![3] = Defect(@, "z", 0)]}

InitSteps ==
  /\ fs \in InitialRoots
  /\ pc = "idle"
  /\ wcall = NoCall
  /\ rcall = NoCall
  /\ codec = NoCall
  /\ writers = NoWriters

\* a caller enters write_package: line 149; alone records that no other
\* call is in progress. The callers are numbered in the order they enter
Begin(w) ==
  /\ writers[w].status = "idle"
  /\ \A v \in Writers : v < w => writers[v].status # "idle"
  /\ \E p \in StepInputs :
       writers' = [writers EXCEPT ![w] =
         [status |-> "running", pos |-> 1, pre |-> fs,
          alone |-> \A v \in Writers \ {w} : writers[v].status # "running",
          f |-> Frame(fs, Root, ExampleManifest, p[1], p[2], p[3], DefaultLevel)]]
  /\ UNCHANGED <<fs, pc, wcall, rcall, codec>>

\* the writer after its next statement ran on the shared filesystem: the
\* statement raised, or was the last one (the call returns), or another
\* statement follows. The frame keeps the locals; the filesystem is the
\* shared one
stepped(writer, g) ==
  [writer EXCEPT !.f = [g EXCEPT !.fs = writer.pre],
                 !.status = IF g.err # NoErr THEN "raised"
                            ELSE IF writer.pos = Len(write_package_steps)
                              THEN "returned" ELSE "running",
                 !.pos = writer.pos + 1]

\* the statement the writer is at, run on the filesystem as it is now
next_statement(writer, files) ==
  step(write_package_steps[writer.pos], [writer.f EXCEPT !.fs = files])

\* one statement of lines 150-175
Step(w) ==
  /\ writers[w].status = "running"
  /\ fs' = next_statement(writers[w], fs).fs
  /\ writers' = [writers EXCEPT ![w] =
                   stepped(writers[w], next_statement(writers[w], fs))]
  /\ UNCHANGED <<pc, wcall, rcall, codec>>

\* the process dies between two statements
Crash(w) ==
  /\ writers[w].status = "running"
  /\ writers' = [writers EXCEPT ![w].status = "crashed"]
  /\ UNCHANGED <<fs, pc, wcall, rcall, codec>>

NextSteps == \E w \in Writers : Begin(w) \/ Step(w) \/ Crash(w)

SpecSteps == InitSteps /\ [][NextSteps]_vars

\* the five files of a package
PackageFiles == { ArtifactPath(FiveArtifacts[k]) : k \in 1..5 }

\* the root holds no package file (it may exist as a directory)
NoPackageFiles(files) ==
  /\ \A path \in PackageFiles : ~Exists(files, path)
  /\ ~Exists(files, package_paths(Root).checksums_path)

\* one call of write_package, by the first caller, into a root that held
\* no package files, and no other call
OnlyWriter ==
  /\ writers[1].status # "idle"
  /\ writers[2].status = "idle"
  /\ NoPackageFiles(writers[1].pre)

\* the filesystem the call leaves when it runs alone to its end
FinalFs(writer) ==
  write_package(writer.pre, Root, writer.f.manifest, writer.f.touch,
                writer.f.acc, writer.f.gyro, writer.f.compression_level).fs

\* C12: during write_package into a root that holds no package files, in
\* every intermediate state, if checksums.txt exists then manifest.json,
\* index.json and the three channel files exist with their final contents;
\* a call that has not returned (running, raised or died) leaves
\* checksums.txt absent
C12_ChecksumsWrittenLast ==
  OnlyWriter =>
    /\ Exists(fs, package_paths(Root).checksums_path) =>
         \A path \in PackageFiles :
           Exists(fs, path) /\ fs[path] = FinalFs(writers[1])[path]
    /\ writers[1].status # "returned" =>
         ~Exists(fs, package_paths(Root).checksums_path)

\* the process died just before the statement that writes checksums.txt,
\* with index.json already on disk
C12_Witness ==
  /\ OnlyWriter
  /\ writers[1].status = "crashed"
  /\ writers[1].pos = Len(write_package_steps)
  /\ Exists(fs, package_paths(Root).index_path)
  /\ ~Exists(fs, package_paths(Root).checksums_path)

\* _assert_monotonic of verify_rcp_integrity.py: TRUE when the assertion
\* passes (np.diff(arr) > 0 everywhere)
assert_monotonic(values) ==
  \A i \in 1..(Len(values) - 1) : values[i + 1] - values[i] > 0

\* C13 as stated: every channel file persisted by write_package holds
\* strictly increasing timestamps
C13_PersistedTimestampsIncrease ==
  WritePackageReturned =>
    /\ assert_monotonic(read_channel_pbz(fs, package_paths(Root).channels.touch_path,
                                         "TouchChannel").value.t)
    /\ assert_monotonic(read_channel_pbz(fs, package_paths(Root).channels.acc_path,
                                         "AccChannel").value.t)
    /\ assert_monotonic(read_channel_pbz(fs, package_paths(Root).channels.gyro_path,
                                         "GyroChannel").value.t)

\* ------------------------------------------------------------------------
\* load_simulation of serialization.py (specification SpecLoad)
\* ------------------------------------------------------------------------

ErrNotNumeric == "ValueError: could not convert string to float"

\* a JSON value of the simulation file: an object of columns t, x, y, z, a
\* flat list of numbers as export_simulation writes it, or no such key
JsonColumns(t) ==
  [kind |-> "object", t |-> t, x |-> [i \in 1..Len(t) |-> i],
   y |-> [i \in 1..Len(t) |-> i], z |-> [i \in 1..Len(t) |-> i]]

JsonList(values) == [kind |-> "list", items |-> values]

JsonMissing == [kind |-> "missing"]

\* data.get(key, [])
dict_get(value) == IF value.kind = "missing" THEN JsonList(<<>>) ELSE value

\* np.array(values, dtype=float): iterating an object yields its keys, and
\* float("t") raises; the numbers of a list are kept in their order
np_array(values) ==
  IF values.kind = "object" THEN [err |-> ErrNotNumeric, array |-> <<>>]
  ELSE [err |-> NoErr, array |-> values.items]

\* SimulationResult(accelerometer=..., gyroscope=..., metadata=...), or the
\* exception of the first np.array that raises
SimulationResult(accelerometer, gyroscope) ==
  IF accelerometer.err # NoErr THEN [err |-> accelerometer.err]
  ELSE IF gyroscope.err # NoErr THEN [err |-> gyroscope.err]
  ELSE [err |-> NoErr, accelerometer |-> accelerometer.array,
        gyroscope |-> gyroscope.array]

load_simulation(data) ==
  SimulationResult(np_array(dict_get(data.accelerometer)),
                   np_array(dict_get(data.gyroscope)))

\* timestamps of the simulation files: in order, out of order, repeated
SimTimestamps == SeqsUpTo({10, 30}, MaxSamples)

SimValues ==
  { JsonColumns(t) : t \in SimTimestamps }
  \cup { JsonList(v) : v \in SeqsUpTo({0, 1}, MaxSamples) }
  \cup {JsonMissing}

InitLoad ==
  /\ fs = EmptyFs
  /\ pc = "idle"
  /\ wcall = NoCall
  /\ rcall = NoCall
  /\ codec = NoCall
  /\ writers = NoWriters

\* serialization.load_simulation(path, logger) on a file holding data
LoadSimulation ==
  /\ codec = NoCall
  /\ \E a \in SimValues, g \in SimValues :
       codec' = [op |-> "load_simulation",
                 data |-> [accelerometer |-> a, gyroscope |-> g],
                 result |-> load_simulation([accelerometer |-> a, gyroscope |-> g])]
  /\ UNCHANGED <<fs, pc, wcall, rcall, writers>>

NextLoad == LoadSimulation

SpecLoad == InitLoad /\ [][NextLoad]_vars

\* the place of sample i after a stable sort by timestamp
SortedPlace(t, i) ==
  1 + Cardinality({ j \in 1..Len(t) : t[j] < t[i] \/ (t[j] = t[i] /\ j < i) })

\* the sample that a stable sort by timestamp puts at place k
SampleAt(t, k) == CHOOSE i \in 1..Len(t) : SortedPlace(t, i) = k

RECURSIVE Bumped(_, _)
\* the first k sorted timestamps, each one that is not above its
\* predecessor raised to predecessor + 1
Bumped(t, k) ==
  IF k = 0 THEN <<>>
  ELSE IF k = 1 THEN <<t[SampleAt(t, 1)]>>
  ELSE Append(Bumped(t, k - 1),
              Max(t[SampleAt(t, k)], Bumped(t, k - 1)[k - 1] + 1))

\* the channel the claim expects from columns t, x, y, z
RepairedColumns(c) ==
  [t |-> Bumped(c.t, Len(c.t)),
   x |-> [k \in 1..Len(c.t) |-> c.x[SampleAt(c.t, k)]],
   y |-> [k \in 1..Len(c.t) |-> c.y[SampleAt(c.t, k)]],
   z |-> [k \in 1..Len(c.t) |-> c.z[SampleAt(c.t, k)]]]

\* C14 as stated: load_simulation of a file whose accelerometer timestamps
\* are not strictly increasing returns the accelerometer samples stably
\* sorted by timestamp, with each timestamp that is not above its
\* predecessor raised to predecessor + 1, every sample keeping its x, y, z
C14_LoadRepairsTimestamps ==
  (/\ codec.op = "load_simulation"
   /\ codec.data.accelerometer.kind = "object"
   /\ ~assert_monotonic(codec.data.accelerometer.t))
  => /\ codec.result.err = NoErr
     /\ codec.result.accelerometer = RepairedColumns(codec.data.accelerometer)

\* ------------------------------------------------------------------------
\* verify_package of tests/verify_rcp_integrity.py on a package that was
\* written and then possibly changed on disk (specification SpecVerify)
\* ------------------------------------------------------------------------

\* "rcp_2025"
S_rcp_2025 == <<114, 99, 112, 95, 50, 48, 50, 53>>

\* float("inf") as struct.pack("<f", ...) keeps it
F_inf == [w |-> 32, b |-> <<0, 0, 128, 127>>]

\* np.isfinite on a float32: the exponent bits are not all ones
isfinite(v) == ~(v.b[4] % 128 = 127 /\ v.b[3] >= 128)

ErrJson == "JSONDecodeError"

ErrAssertion == "AssertionError"

\* the call raised err (about the file named, if any)
Raised(err, file_name) == [err |-> err, file |-> file_name]

\* the call returned None
ReturnedNone == [err |-> NoErr, file |-> ""]

\* json.loads raises on a text that is not JSON
IsJson(text) == text.fmt = "json"

\* checksum_map[file_name] of line 51: the digest of the last line that
\* names the file, <<>> when no line does
checksum_map(lines, file_name) ==
  LET named == { i \in 1..Len(lines) :
                   /\ Len(split_two_spaces(lines[i])) = 2
                   /\ split_two_spaces(lines[i])[2] = <<Str(file_name)>> }
  IN IF named = {} THEN <<>>
     ELSE split_two_spaces(lines[CHOOSE i \in named : \A j \in named : j <= i])[1]

\* VerifiedFiles without manifest.json
VerifiedFiles_without_manifest ==
  <<"index.json", "channels/touch.pbz", "channels/acc.pbz", "channels/gyro.pbz">>

\* the keys of the dict of lines 53-59, in its order
VerifiedFiles ==
  <<"manifest.json", "index.json", "channels/touch.pbz", "channels/acc.pbz",
    "channels/gyro.pbz">>

RECURSIVE verify_files(_, _, _, _)
\* the for-loop of lines 53-63 from its k-th file on, then line 65
verify_files(files, manifest, lines, k) ==
  IF k > Len(VerifiedFiles)
    THEN IF manifest.version = S_rcp_2025 THEN ReturnedNone
         ELSE Raised(ErrAssertion, "")
  ELSE IF checksum_map(lines, VerifiedFiles[k]) = <<>>
    THEN Raised(ErrAssertion, VerifiedFiles[k])
  ELSE IF checksum_map(lines, VerifiedFiles[k])
            # <<Hex(hash_file(files, ArtifactPath(VerifiedFiles[k])))>>
    THEN Raised(ErrAssertion, VerifiedFiles[k])
  ELSE verify_files(files, manifest, lines, k + 1)

\* lines 41-50
verify_channels(files, manifest, index, touch, acc, gyro) ==
  IF touch.err # NoErr THEN Raised(touch.err, "channels/touch.pbz")
  ELSE IF acc.err # NoErr THEN Raised(acc.err, "channels/acc.pbz")
  ELSE IF gyro.err # NoErr THEN Raised(gyro.err, "channels/gyro.pbz")
  ELSE IF Len(touch.value.t) # index.touch_samples THEN Raised(ErrAssertion, "")
  ELSE IF ~assert_monotonic(touch.value.t) THEN Raised(ErrAssertion, "")
  ELSE IF ~assert_monotonic(acc.value.t) THEN Raised(ErrAssertion, "")
  ELSE IF ~assert_monotonic(gyro.value.t) THEN Raised(ErrAssertion, "")
  ELSE IF \E i \in 1..Len(acc.value.x) : ~isfinite(acc.value.x[i])
    THEN Raised(ErrAssertion, "")
  ELSE IF \E i \in 1..Len(gyro.value.z) : ~isfinite(gyro.value.z[i])
    THEN Raised(ErrAssertion, "")
  ELSE IF checksum_lines(files) = <<>> THEN Raised(ErrAssertion, "checksums.txt")
  ELSE verify_files(files, manifest, checksum_lines(files), 1)

\* lines 34-39
verify_metadata(files, manifest_text, index_text) ==
  IF manifest_text.err # NoErr THEN Raised(manifest_text.err, "manifest.json")
  ELSE IF ~IsJson(manifest_text.content) THEN Raised(ErrJson, "manifest.json")
  ELSE IF index_text.err # NoErr THEN Raised(index_text.err, "index.json")
  ELSE IF ~IsJson(index_text.content) THEN Raised(ErrJson, "index.json")
  ELSE verify_channels(files, json_loads(manifest_text.content),
         json_loads(index_text.content),
         read_channel_pbz(files, package_paths(Root).channels.touch_path, "TouchChannel"),
         read_channel_pbz(files, package_paths(Root).channels.acc_path, "AccChannel"),
         read_channel_pbz(files, package_paths(Root).channels.gyro_path, "GyroChannel"))

verify_package(files) ==
  verify_metadata(files, read_file(files, package_paths(Root).manifest_path),
                  read_file(files, package_paths(Root).index_path))

\* at most this many files are changed after the write
MaxTampered == 2

VerifyManifests == {[ExampleManifest EXCEPT !.version = S_rcp_2025], EmptyManifest}

\* channels that verify, an accelerometer x and a gyroscope z of infinity,
\* and gyroscope timestamps that go backwards
VerifyChannels ==
  {StepPackage(MaxSamples, 1, 0),
   [StepPackage(1, 1, 1) EXCEPT ![2].x = <<F_inf>>],
   [StepPackage(1, 1, 1) EXCEPT ![3].z = <<F_inf>>],
   [StepPackage(1, 1, 0) EXCEPT ![3] = MakeChannel("GyroChannel", <<300, 0>>, <<F_1, F_055>>)]}

\* other bytes for a file that was written with content: for a JSON file
\* the same value laid out differently, another value, and text that is not JSON;
\* for a channel file the frame of another package, the frame with a byte
\* appended, and a corrupt frame
TamperVariants(path, content) ==
  IF path = package_paths(Root).manifest_path
    THEN {[fmt |-> "json", obj |-> content.obj, pad |-> 1], [fmt |-> "text"],
          message_to_json([EmptyManifest EXCEPT !.version = S_b])}
  ELSE IF path = package_paths(Root).index_path
    THEN {[fmt |-> "json", obj |-> content.obj, pad |-> 1], [fmt |-> "text"],
          OldFs[path].content}
  ELSE {OldFs[path].content, content \o <<0>>, <<0>>}

\* the files whose bytes are not those the write left
Changed(files) == { path \in PackageFiles : files[path] # wcall.post[path] }

InitVerify ==
  /\ fs \in InitialRoots
  /\ pc = "idle"
  /\ wcall = NoCall
  /\ rcall = NoCall
  /\ codec = NoCall
  /\ writers = NoWriters

\* the record of a write_package call and of the filesystem it left
written(manifest, p, r) ==
  [op |-> "write_package", manifest |-> manifest, touch |-> p[1],
   acc |-> p[2], gyro |-> p[3], err |-> r.err, index |-> r.index,
   post |-> r.fs]

\* rcp.write_package(root, manifest, touch, acc, gyro)
WriteVerified ==
  /\ pc = "idle"
  /\ \E manifest \in VerifyManifests, p \in VerifyChannels :
       /\ fs' = write_package(fs, Root, manifest, p[1], p[2], p[3], DefaultLevel).fs
       /\ wcall' = written(manifest, p,
            write_package(fs, Root, manifest, p[1], p[2], p[3], DefaultLevel))
  /\ pc' = "written"
  /\ UNCHANGED <<rcall, codec, writers>>

\* somebody overwrites one of the five files
Tamper ==
  /\ pc = "written"
  /\ \E path \in PackageFiles :
       \E bytes \in TamperVariants(path, wcall.post[path].content) :
         /\ bytes # fs[path].content
         /\ fs' = write_file(fs, path, bytes).fs
         /\ Cardinality(Changed(write_file(fs, path, bytes).fs)) <= MaxTampered
  /\ UNCHANGED <<pc, wcall, rcall, codec, writers>>

\* the outcome of verify_package: what it raised, or that it returned (None)
verified(r) ==
  [op |-> "verify_package", err |-> r.err, file |-> r.file,
   value |-> [kind |-> "None"]]

\* verify_package(package_root)
Verify ==
  /\ pc = "written"
  /\ rcall' = verified(verify_package(fs))
  /\ pc' = "verified"
  /\ UNCHANGED <<fs, wcall, codec, writers>>

NextVerify == WriteVerified \/ Tamper \/ Verify

SpecVerify == InitVerify /\ [][NextVerify]_vars

\* the files whose digest in checksums.txt is not that of their bytes
Mismatching(files) ==
  { VerifiedFiles[k] : k \in { j \in 1..Len(VerifiedFiles) :
      checksum_map(checksum_lines(files), VerifiedFiles[j])
        # <<Hex(hash_file(files, ArtifactPath(VerifiedFiles[j])))>> } }

\* C15 as stated: when k of the five files do not match their line of
\* checksums.txt, verify_package does not raise at the first of them: it
\* returns a failing result that lists all k
C15_ReportsEveryMismatch ==
  (rcall.op = "verify_package" /\ Mismatching(fs) # {})
  => /\ rcall.err = NoErr
     /\ rcall.value = [kind |-> "report", passed |-> FALSE,
                       mismatches |-> Mismatching(fs)]

\* the package was written with version rcp_2025 and strictly increasing
\* timestamps
VerifiablePackage ==
  /\ WritePackageReturned
  /\ wcall.manifest.version = S_rcp_2025
  /\ assert_monotonic(wcall.touch.t)
  /\ assert_monotonic(wcall.acc.t)
  /\ assert_monotonic(wcall.gyro.t)

FiniteSensors ==
  /\ \A i \in 1..Len(wcall.acc.x) : isfinite(float32(wcall.acc.x[i]))
  /\ \A i \in 1..Len(wcall.gyro.z) : isfinite(float32(wcall.gyro.z[i]))

SelfConsistent(files) ==
  /\ Len(checksum_lines(files)) = 5
  /\ \A i \in 1..5 : LineMatchesDisk(checksum_lines(files)[i], files)
  /\ index_json(files).touch_samples
       = SamplesOnDisk(files, package_paths(Root).channels.touch_path, "TouchChannel")
  /\ index_json(files).acc_samples
       = SamplesOnDisk(files, package_paths(Root).channels.acc_path, "AccChannel")
  /\ index_json(files).gyro_samples
       = SamplesOnDisk(files, package_paths(Root).channels.gyro_path, "GyroChannel")
  /\ ChecksumNames(index_json(files).checksums) = SubSeq(FiveArtifacts, 1, 4)
  /\ \A i \in 1..4 :
       index_json(files).checksums[i].sha256
         = hash_file(files, ArtifactPath(FiveArtifacts[i]))

\* both calls of write_package have returned
BothReturned == \A w \in Writers : writers[w].status = "returned"

\* C17: write_package takes no lock. When two calls on the same root are
\* serialized (one returns before the other starts) the final package is
\* self-consistent; when their statements interleave the final package
\* can disagree with itself (the witness)
C17_SerializedWritersConsistent ==
  (BothReturned /\ \A w \in Writers : writers[w].alone)
  => SelfConsistent(fs)

\* two calls with different channels interleaved, both returned, and
\* checksums.txt or index.json does not match the files on disk
C17_Witness ==
  /\ BothReturned
  /\ ~writers[2].alone
  /\ writers[1].f.touch # writers[2].f.touch
  /\ ~SelfConsistent(fs)

\* ------------------------------------------------------------------------
\* zstd_codec.decompress statement by statement: one call on a frame made
\* by compress or received from elsewhere.  codec.at is the line the call
\* is about to execute, codec.dest the size of the output buffer allocated
\* last.
\* ------------------------------------------------------------------------

\* the ceiling on the output buffer, 1 << 30
OutputCeiling == 2 ^ 30

\* a content size above the ceiling that a frame header can declare
HugeContentSize == 3 * 2 ^ 29

\* compression levels passed to compress
Levels == 1..19

ZstdBytes == {0, 40, 255}

\* byte sequences handed to compress
ZstdPayloads == SeqsUpTo(ZstdBytes, MaxBufLen)

\* frames that compress did not make: every declared content size with a
\* content that matches it or not, and buffers that are no frame at all
ForeignFrames ==
  { ZstdMagic \o <<size>> \o content :
      size \in {0, 1, ZSTD_CONTENTSIZE_UNKNOWN, HugeContentSize},
      content \in SeqsUpTo({7}, MaxBufLen) }
  \cup SeqsUpTo({40}, 1)

NoBuffer == 0 - 1

\* the frame of a call of decompress(src) at its first statement
decompress_called(origin, data, level, src) ==
  [op |-> "zstd", origin |-> origin, data |-> data, level |-> level,
   src |-> src, at |-> "79", content_size |-> 0, dest |-> NoBuffer,
   decoded |-> [isError |-> FALSE, data |-> <<>>],
   err |-> NoErr, result |-> <<>>]

InitZstd ==
  /\ fs = EmptyFs
  /\ pc = "idle"
  /\ wcall = NoCall
  /\ rcall = NoCall
  /\ codec = NoCall
  /\ writers = NoWriters

\* decompress(compress(data, level)): compress runs to its return and the
\* call of decompress begins
Compress ==
  /\ codec = NoCall
  /\ \E data \in ZstdPayloads, level \in Levels :
       codec' = decompress_called("compress", data, level, compress(data, level))
  /\ UNCHANGED <<fs, pc, wcall, rcall, writers>>

\* decompress(src) on bytes that compress did not produce
Receive ==
  /\ codec = NoCall
  /\ \E src \in ForeignFrames :
       codec' = decompress_called("foreign", <<>>, 0, src)
  /\ UNCHANGED <<fs, pc, wcall, rcall, writers>>

\* lines 79-85: read the declared content size
FrameContentSize ==
  /\ codec.op = "zstd" /\ codec.at = "79"
  /\ codec' =
       IF ZSTD_getFrameContentSize(codec.src) = ZSTD_CONTENTSIZE_ERROR
         THEN [codec EXCEPT !.at = "raised", !.err = ErrInvalidFrame]
       ELSE IF ZSTD_getFrameContentSize(codec.src) = ZSTD_CONTENTSIZE_UNKNOWN
         THEN [codec EXCEPT !.at = "88",
                            !.content_size = Max(Len(codec.src) * 4, 1024)]
       ELSE [codec EXCEPT !.at = "88",
                          !.content_size = ZSTD_getFrameContentSize(codec.src)]
  /\ UNCHANGED <<fs, pc, wcall, rcall, writers>>

\* line 88: dest = (ctypes.c_char * content_size)()
Allocate ==
  /\ codec.op = "zstd" /\ codec.at = "88"
  /\ codec' = [codec EXCEPT !.at = "89", !.dest = codec.content_size]
  /\ UNCHANGED <<fs, pc, wcall, rcall, writers>>

\* lines 89-91: call ZSTD_decompress and return what it decoded
Decode ==
  /\ codec.op = "zstd" /\ codec.at = "89"
  /\ codec' =
       IF ZSTD_decompress(codec.dest, codec.src).isError
         THEN [codec EXCEPT !.at = "93",
                            !.decoded = ZSTD_decompress(codec.dest, codec.src)]
         ELSE [codec EXCEPT !.at = "returned",
                            !.decoded = ZSTD_decompress(codec.dest, codec.src),
                            !.result = ZSTD_decompress(codec.dest, codec.src).data]
  /\ UNCHANGED <<fs, pc, wcall, rcall, writers>>

\* lines 93-97: double content_size and give up above the ceiling.  The
\* doubled size is compared without computing it where it would not fit
\* the model's integers
Grow ==
  /\ codec.op = "zstd" /\ codec.at = "93"
  /\ codec' =
       IF codec.content_size > OutputCeiling \div 2
         THEN [codec EXCEPT !.at = "raised", !.err = ErrZstd]
         ELSE [codec EXCEPT !.at = "88",
                            !.content_size = codec.content_size * 2]
  /\ UNCHANGED <<fs, pc, wcall, rcall, writers>>

NextZstd ==
  \/ Compress
  \/ Receive
  \/ FrameContentSize
  \/ Allocate
  \/ Decode
  \/ Grow

SpecZstd == InitZstd /\ [][NextZstd]_vars

\* a call that is running keeps executing its next statement
SpecZstdFair == SpecZstd /\ WF_vars(NextZstd)

\* C18: decompress never allocates an output buffer larger than 1 GiB,
\* whether the size comes from the frame header or from doubling
C18_AllocationWithinCeiling ==
  codec.op = "zstd" => codec.dest <= OutputCeiling

C20_DecompressTerminates ==
  (codec.op = "zstd") ~> (codec.op = "zstd" /\ codec.at \in {"returned", "raised"})

\* ------------------------------------------------------------------------
\* Order of writes and hashes inside one write_package call (SpecSteps)
\* ------------------------------------------------------------------------

\* the statements of write_package the writer has executed
Executed(writer) == { write_package_steps[i] : i \in 1..(writer.pos - 1) }

\* the files of the entries compute_checksums has returned
EntryPaths(entries) == { ArtifactPath(entries[i].path) : i \in 1..Len(entries) }

\* the files the call has read back so far: the channels re-read by
\* build_index (lines 103-105) and every file hashed by compute_checksums
\* (lines 166 and 172)
HashedPaths(writer) ==
  EntryPaths(writer.f.index.checksums)
  \cup EntryPaths(writer.f.checksum_entries)
  \cup (IF "build_index" \in Executed(writer)
          THEN { ArtifactPath(FiveArtifacts[k]) : k \in 2..4 } ELSE {})

\* C21: within one write_package call no artifact is written after it has
\* been read back or hashed, and index.json is on disk only once the four
\* hashes it embeds are taken
C21_NoWriteAfterHash ==
  /\ [](OnlyWriter /\ Exists(fs, package_paths(Root).index_path)
         => /\ Len(writers[1].f.index.checksums) = 4
            /\ "build_index" \in Executed(writers[1]))
  /\ [][(writers[2].status = "idle" /\ writers'[2].status = "idle")
         => \A path \in PackageFiles :
              fs'[path] # fs[path] => path \notin HashedPaths(writers[1])]_vars

\* a single call has returned: the five files are hashed and every entry
\* is the digest of the file as it is on disk
C21_Witness ==
  /\ OnlyWriter
  /\ writers[1].status = "returned"
  /\ HashedPaths(writers[1]) = PackageFiles
  /\ \A i \in 1..5 :
       writers[1].f.checksum_entries[i].sha256
         = hash_file(fs, ArtifactPath(writers[1].f.checksum_entries[i].path))

\* ------------------------------------------------------------------------
\* The wire helpers and SerializeToString on their own: one call per
\* behaviour, codec records the arguments and the outcome
\* ------------------------------------------------------------------------

\* bytes with the high bit clear and set, low groups zero and non-zero
WireBytes == {0, 1, 127, 128, 129, 255}

WireBuffers == SeqsUpTo(WireBytes, MaxBufLen)

\* buffers of 0..9 zero bytes for the fixed-width decoders
FixedBuffers == { [i \in 1..n |-> 0] : n \in 0..(8 + 1) }

\* values on both sides of every group boundary the model's integers hold
VarintValues ==
  {0, 1, 127, 128, 300, 2 ^ 14 - 1, 2 ^ 14, 2 ^ 21 - 1, 2 ^ 21,
   2 ^ 28 - 1, 2 ^ 28, 2147483647}

\* messages whose scalar fields are zero, empty or default, or not, and
\* channels whose elements are zero
SerializeInputs ==
  { [schema |-> "Checksum", msg |-> Checksum(p, h)] :
      p \in {<<>>, S_a}, h \in {<<>>, S_b} }
  \cup { [schema |-> "Manifest", msg |-> m] :
           m \in {EmptyManifest, ExampleManifest,
                  [EmptyManifest EXCEPT !.dpi = D_negzero],
                  [EmptyManifest EXCEPT !.version = S_a]} }
  \cup { [schema |-> "Index", msg |-> Index(n, m, k, d)] :
           n \in {0, 1}, m \in {0, 1}, k \in {0, 1}, d \in {D_0, D_300} }
  \cup { [schema |-> cls, msg |-> MakeChannel(cls, t, Fill(Len(t), F_0))] :
           cls \in ChannelClasses, t \in SeqsUpTo({0, 300}, MaxSamples) }

\* SerializeToString of the message of a schema
SerializeMessage(schema, msg) ==
  CASE schema = "Checksum" -> Checksum_SerializeToString(msg)
    [] schema = "Manifest" -> Manifest_SerializeToString(msg)
    [] schema = "Index" -> Index_SerializeToString(msg)
    [] OTHER -> SerializeToString(msg)

InitWire ==
  /\ fs = EmptyFs
  /\ pc = "idle"
  /\ wcall = NoCall
  /\ rcall = NoCall
  /\ codec = NoCall
  /\ writers = NoWriters

\* _decode_varint(data, pos)
DecodeVarint ==
  /\ codec = NoCall
  /\ \E data \in WireBuffers :
       \E pos \in 0..Len(data) :
         codec' = [op |-> "_decode_varint", data |-> data, pos |-> pos,
                   r |-> decode_varint(data, pos)]
  /\ UNCHANGED <<fs, pc, wcall, rcall, writers>>

\* _decode_length_delimited(data, pos)
DecodeLengthDelimited ==
  /\ codec = NoCall
  /\ \E data \in WireBuffers :
       \E pos \in 0..Len(data) :
         codec' = [op |-> "_decode_length_delimited", data |-> data, pos |-> pos,
                   r |-> decode_length_delimited(data, pos)]
  /\ UNCHANGED <<fs, pc, wcall, rcall, writers>>

\* _decode_float(data, pos)
DecodeFloat ==
  /\ codec = NoCall
  /\ \E data \in FixedBuffers :
       \E pos \in 0..Len(data) :
         codec' = [op |-> "_decode_float", data |-> data, pos |-> pos,
                   width |-> 4, r |-> decode_float(data, pos)]
  /\ UNCHANGED <<fs, pc, wcall, rcall, writers>>

\* _decode_double(data, pos)
DecodeDouble ==
  /\ codec = NoCall
  /\ \E data \in FixedBuffers :
       \E pos \in 0..Len(data) :
         codec' = [op |-> "_decode_double", data |-> data, pos |-> pos,
                   width |-> 8, r |-> decode_double(data, pos)]
  /\ UNCHANGED <<fs, pc, wcall, rcall, writers>>

\* out = _encode_varint(value); _decode_varint(out, 0)
EncodeVarint ==
  /\ codec = NoCall
  /\ \E value \in VarintValues :
       codec' = [op |-> "_encode_varint", value |-> value,
                 out |-> encode_varint(value),
                 back |-> decode_varint(encode_varint(value), 0)]
  /\ UNCHANGED <<fs, pc, wcall, rcall, writers>>

\* msg.SerializeToString()
Serialize ==
  /\ codec = NoCall
  /\ \E input \in SerializeInputs :
       codec' = [op |-> "SerializeToString", schema |-> input.schema,
                 msg |-> input.msg,
                 data |-> SerializeMessage(input.schema, input.msg)]
  /\ UNCHANGED <<fs, pc, wcall, rcall, writers>>

NextWire ==
  \/ DecodeVarint
  \/ DecodeLengthDelimited
  \/ DecodeFloat
  \/ DecodeDouble
  \/ EncodeVarint
  \/ Serialize

SpecWire == InitWire /\ [][NextWire]_vars

\* C22 as stated: _decode_length_delimited fails with the truncated-input
\* error whenever the declared length exceeds the bytes remaining after the
\* length varint; it never returns a payload shorter than the declared
\* length nor a position beyond the end of the buffer
C22_LengthDelimitedRejectsOverrun ==
  (codec.op = "_decode_length_delimited"
     /\ decode_varint(codec.data, codec.pos).err = NoErr)
  => LET length == decode_varint(codec.data, codec.pos)
     IN IF length.value > Len(codec.data) - length.pos
          THEN codec.r.err = ErrTruncatedVarint
          ELSE /\ codec.r.err = NoErr
               /\ Len(codec.r.raw) = length.value
               /\ codec.r.pos <= Len(codec.data)

\* the bytes from position pos on, 1-based, that end a varint
Terminators(data, pos) == { i \in (pos + 1)..Len(data) : data[i] < 128 }

RECURSIVE GroupsValue(_, _, _)
\* the number whose 7-bit groups, least significant first, are the low
\* bits of data[first..last]
GroupsValue(data, first, last) ==
  IF first > last THEN 0
  ELSE (data[first] % 128) + 128 * GroupsValue(data, first + 1, last)

\* C23: _decode_varint(data, pos) raises the truncated-input error if and
\* only if the buffer ends before a byte with the high bit clear is read;
\* otherwise it returns the value and the position just past the first
\* such byte
C23_VarintTruncation ==
  codec.op = "_decode_varint"
  => IF Terminators(codec.data, codec.pos) = {}
       THEN codec.r.err = ErrTruncatedVarint
       ELSE LET last == CHOOSE i \in Terminators(codec.data, codec.pos) :
                          \A j \in Terminators(codec.data, codec.pos) : i <= j
            IN /\ codec.r.err = NoErr
               /\ codec.r.pos = last
               /\ codec.r.value = GroupsValue(codec.data, codec.pos + 1, last)

\* a three-byte varint read from position 0 with a byte left unread, and a
\* buffer that ends on a continuation byte
C23_Witness ==
  /\ codec.op = "_decode_varint"
  /\ \/ /\ codec.data = <<129, 255, 1>> /\ codec.pos = 0
        /\ codec.r = [err |-> NoErr, value |-> 1 + 128 * 127 + 128 * 128, pos |-> 3]
     \/ /\ codec.data = <<1, 128>> /\ codec.pos = 1
        /\ codec.r.err = ErrTruncatedVarint

\* C24 as stated: _decode_float and _decode_double consume exactly 4 or 8
\* bytes and fail with the truncated-input error of the varint decoder
\* when fewer bytes remain at pos
C24_FixedWidthTruncation ==
  codec.op \in {"_decode_float", "_decode_double"}
  => IF Len(codec.data) - codec.pos < codec.width
       THEN codec.r.err = ErrTruncatedVarint
       ELSE codec.r.err = NoErr /\ codec.r.pos = codec.pos + codec.width

\* C25: _encode_varint(v) is 1 to 10 bytes, every byte but the last with
\* the high bit set and the last with it clear, holding the 7-bit groups of
\* v least significant first, and _decode_varint of it returns v and its
\* length
C25_VarintRoundTrip ==
  codec.op = "_encode_varint"
  => /\ Len(codec.out) \in 1..10
     /\ \A i \in 1..(Len(codec.out) - 1) : codec.out[i] \div 128 = 1
     /\ codec.out[Len(codec.out)] \div 128 = 0
     /\ \A i \in 1..Len(codec.out) :
          codec.out[i] % 128 = (codec.value \div (128 ^ (i - 1))) % 128
     /\ codec.value \div (128 ^ (Len(codec.out) - 1)) < 128
     /\ codec.back = [err |-> NoErr, value |-> codec.value, pos |-> Len(codec.out)]

\* the largest value of the model, five bytes long, has come back
C25_Witness ==
  /\ codec.op = "_encode_varint"
  /\ codec.value = 2147483647
  /\ codec.out = <<255, 255, 255, 255, 7>>
  /\ codec.back.value = codec.value

\* every scalar field of the message is zero, empty or the default
AllDefault(schema, msg) ==
  CASE schema = "Checksum" -> msg = Checksum(<<>>, <<>>)
    [] schema = "Manifest" -> ManifestEq(msg, EmptyManifest)
    [] schema = "Index" ->
         /\ msg.touch_samples = 0 /\ msg.acc_samples = 0 /\ msg.gyro_samples = 0
         /\ ~DoubleTruthy(msg.duration_seconds) /\ msg.checksums = <<>>
    [] OTHER -> FALSE

\* C26 as stated: in every message type a scalar field that is zero, empty
\* or the default is omitted from the output, Index included, while every
\* element of a repeated column is emitted, in order, zeros included
C26_DefaultsOmitted ==
  codec.op = "SerializeToString"
  => /\ AllDefault(codec.schema, codec.msg) => codec.data = <<>>
     /\ codec.schema \in ChannelClasses =>
          ParseFromString(NewChannel(codec.schema), codec.data)
            = [err |-> NoErr, msg |-> codec.msg]

\* ------------------------------------------------------------------------
\* More claims about the package writer (specification Spec)
\* ------------------------------------------------------------------------

\* C27: after a single write_package the four checksum entries embedded in
\* index.json are equal, path and digest, to the first four lines of
\* checksums.txt
C27_IndexEntriesEqualFirstLines ==
  WritePackageReturned =>
    /\ Len(index_json(fs).checksums) = 4
    /\ Len(checksum_lines(fs)) >= 4
    /\ \A i \in 1..4 :
         /\ Len(split_two_spaces(checksum_lines(fs)[i])) = 2
         /\ split_two_spaces(checksum_lines(fs)[i])[2][1].v
              = index_json(fs).checksums[i].path
         /\ split_two_spaces(checksum_lines(fs)[i])[1][1].v
              = index_json(fs).checksums[i].sha256

\* write_package returned on a root whose older package had other channel
\* files and another manifest
C27_Witness ==
  /\ WritePackageReturned
  /\ wcall.pre = OldFs
  /\ \A i \in 1..3 : fs[ArtifactPath(FiveArtifacts[i])]
                         # wcall.pre[ArtifactPath(FiveArtifacts[i])]
  /\ Len(index_json(fs).checksums) = 4

\* the items of a dict in the opposite insertion order
Reverse(d) == [i \in 1..Len(d) |-> d[Len(d) + 1 - i]]

\* the filesystem the call with the arguments of wcall, its attributes
\* inserted in the given order, leaves on a root that does not exist yet
FreshFs(attributes) ==
  write_package(EmptyFs, Root, [wcall.manifest EXCEPT !.attributes = attributes],
                wcall.touch, wcall.acc, wcall.gyro, DefaultLevel).fs

\* C28: the files write_package leaves depend only on its arguments, not
\* on what the root held before: they are the files the same call leaves
\* on a fresh root, whatever the insertion order of equal attribute dicts,
\* and checksums.txt and index.json describe the files now on disk
C28_DeterministicRerunnable ==
  WritePackageReturned =>
    /\ \A path \in Paths : fs[path] = FreshFs(wcall.manifest.attributes)[path]
    /\ \A path \in Paths :
         fs[path] = FreshFs(Reverse(wcall.manifest.attributes))[path]
    /\ SelfConsistent(fs)

\* write_package returned on a root that held a complete package in which
\* every file had other contents
C28_Witness ==
  /\ WritePackageReturned
  /\ wcall.pre = OldFs
  /\ Len(wcall.manifest.attributes) = 2
  /\ \A path \in PackageFiles : fs[path] # wcall.pre[path]
  /\ fs[package_paths(Root).checksums_path]
       # wcall.pre[package_paths(Root).checksums_path]

\* ------------------------------------------------------------------------
\* ParseFromString into an object that already holds data (SpecCodec: every
\* parse there is made into the example message of its class)
\* ------------------------------------------------------------------------

\* the bytes the call recorded in c parsed
ParsedBytes(c) ==
  CASE c.schema = "Manifest.attributes" ->
         c.prefix \o encode_tag(7, 2) \o encode_length_delimited(c.tail)
    [] c.schema = "Index.checksums" ->
         c.prefix \o encode_tag(5, 2) \o encode_length_delimited(c.tail)
    [] OTHER -> c.prefix \o c.tail

\* a freshly constructed message of the class of the schema
FreshMessage(schema) ==
  CASE schema = "Checksum" -> Checksum(<<>>, <<>>)
    [] schema \in {"Manifest", "Manifest.attributes"} -> EmptyManifest
    [] schema \in {"Index", "Index.checksums"} -> Index(0, 0, 0, D_0)
    [] OTHER -> NewChannel(schema)

\* self.ParseFromString(data) for the class of the schema
ParseInto(schema, self, data) ==
  CASE schema = "Checksum" -> Checksum_ParseFromString(self, data)
    [] schema \in {"Manifest", "Manifest.attributes"} ->
         Manifest_ParseFromString(self, data)
    [] schema \in {"Index", "Index.checksums"} -> Index_ParseFromString(self, data)
    [] OTHER -> ParseFromString(self, data)

\* C29: a successful ParseFromString into a message that already holds
\* data gives the message that parsing the same bytes into a fresh one
\* gives, and parsing the bytes once more into the result changes nothing
C29_ParseResetsFields ==
  (codec.op = "ParseFromString" /\ codec.err = NoErr)
  => /\ codec.msg
          = ParseInto(codec.schema, FreshMessage(codec.schema),
                      ParsedBytes(codec)).msg
     /\ ParseInto(codec.schema, codec.msg, ParsedBytes(codec))
          = [err |-> NoErr, msg |-> codec.msg]

\* the bytes of an Index with one checksum were parsed into an Index that
\* held one checksum already, and the result holds one
C29_Witness ==
  /\ codec.op = "ParseFromString" /\ codec.err = NoErr
  /\ codec.schema = "Index"
  /\ codec.prefix = Index_SerializeToString(ExampleIndex)
  /\ codec.tail = <<>>
  /\ Len(ExampleIndex.checksums) = 1
  /\ Len(codec.msg.checksums) = 1

\* ------------------------------------------------------------------------
\* Serializing the t column statement by statement: the loop of
\* _encode_varint (lines 24-31) run for every timestamp in turn, as
\* write_channel_pbz does through SerializeToString.  codec.at is the line
\* the call is about to execute.
\* ------------------------------------------------------------------------

\* bytes of out the model records: the width of a uint64 varint.  A loop
\* that goes on appending leaves the recorded prefix as it is
MaxVarintBytes == 10

\* timestamps inside and outside the uint64 domain
TimestampInputs == {0, 300, 2147483647, 0 - 1, 0 - 300}

\* out.append(byte)
appended(out, byte) ==
  IF Len(out) < MaxVarintBytes THEN Append(out, byte) ELSE out

InitEncode ==
  /\ fs = EmptyFs
  /\ pc = "idle"
  /\ wcall = NoCall
  /\ rcall = NoCall
  /\ codec = NoCall
  /\ writers = NoWriters

\* write_channel_pbz(channel, path) reaches channel.SerializeToString():
\* line 270 calls _encode_varint for the first timestamp, if there is one
SerializeTimestamps ==
  /\ codec = NoCall
  /\ \E t \in SeqsUpTo(TimestampInputs, MaxSamples) :
       codec' = [op |-> "write_channel_pbz", t |-> t, k |-> 1,
                 at |-> IF t = <<>> THEN "returned" ELSE "25",
                 value |-> IF t = <<>> THEN 0 ELSE t[1],
                 to_write |-> 0, out |-> <<>>]
  /\ UNCHANGED <<fs, pc, wcall, rcall, writers>>

\* lines 25-26: to_write = value & 0x7F; value >>= 7.  The shift of a
\* negative int is arithmetic: it rounds towards minus infinity
MaskAndShift ==
  /\ codec.op = "write_channel_pbz" /\ codec.at = "25"
  /\ codec' = [codec EXCEPT !.at = "27",
                            !.to_write = codec.value % 128,
                            !.value = codec.value \div 128]
  /\ UNCHANGED <<fs, pc, wcall, rcall, writers>>

\* lines 27-31: append the group and go round again, or append the last
\* group, leave the loop and go on with the next timestamp; after the last
\* one the rest of write_channel_pbz runs to its return
AppendGroup ==
  /\ codec.op = "write_channel_pbz" /\ codec.at = "27"
  /\ codec' =
       IF codec.value # 0
         THEN [codec EXCEPT !.at = "25",
                            !.out = appended(codec.out, codec.to_write + 128)]
       ELSE IF codec.k = Len(codec.t)
         THEN [codec EXCEPT !.at = "returned",
                            !.out = appended(codec.out, codec.to_write)]
       ELSE [codec EXCEPT !.at = "25", !.k = codec.k + 1,
                          !.value = codec.t[codec.k + 1], !.out = <<>>]
  /\ UNCHANGED <<fs, pc, wcall, rcall, writers>>

NextEncode ==
  \/ SerializeTimestamps
  \/ MaskAndShift
  \/ AppendGroup

SpecEncode == InitEncode /\ [][NextEncode]_vars

\* a call that is running keeps executing its next statement
SpecEncodeFair == SpecEncode /\ WF_vars(NextEncode)

\* C30 as stated: serializing a channel terminates for every t column of
\* integers, negative timestamps included: the call returns or raises
C30_SerializeTerminates ==
  (codec.op = "write_channel_pbz")
    ~> (codec.op = "write_channel_pbz" /\ codec.at \in {"returned", "raised"})

====
